---- MODULE Spec2Model ----
(***************************************************************************)
(* Model of the service-offering generator (src/generator_core.py).        *)
(* Strings are TLA+ strings handled character by character (Len, SubSeq,   *)
(* \o), so that case folding, whitespace collapsing, tokenisation and      *)
(* substring search are computed the way the Python code computes them.    *)
(***************************************************************************)
EXTENDS Integers, Sequences, FiniteSets, TLC

VARIABLES
    pc,                 \* position of run_generator / of the function harness
    cfg,                \* arguments of the run (input files and parameters)
    existing_offerings, \* normalized names collected from the input files
    seen,               \* in-run keys of the rows already produced
    sheets_data,        \* accumulated rows, in order, each tagged with its sheet key
    base_pool,          \* candidate rows selected from the current sheet
    work,               \* combinations still to expand for the current sheet
    pos,                \* index of the file being collected / of the (file, level) pair
    base_row,           \* index of the candidate row the output row is copied from
    dup_raised,         \* history: a duplicate-name ValueError was raised in the run
    result,             \* outcome of run_generator
    outfile,            \* rows of the written workbook (<<>> while none is written)
    call,               \* arguments of a pure-function call (function harness)
    ret                 \* its result

vars == <<pc, cfg, existing_offerings, seen, sheets_data, base_pool, work, pos, base_row,
          dup_raised, result, outfile, call, ret>>

-----------------------------------------------------------------------------
(* Python string primitives                                                *)

UPPER == "ABCDEFGHIJKLMNOPQRSTUVWXYZ"
LOWER == "abcdefghijklmnopqrstuvwxyz"
DIGITS == "0123456789"

Ch(s, i) == SubSeq(s, i, i)

UpperSet == {Ch(UPPER, i) : i \in 1..Len(UPPER)}
LowerSet == {Ch(LOWER, i) : i \in 1..Len(LOWER)}
DigitSet == {Ch(DIGITS, i) : i \in 1..Len(DIGITS)}

ToLower == [c \in UpperSet |-> Ch(LOWER, CHOOSE i \in 1..Len(UPPER) : Ch(UPPER, i) = c)]
ToUpper == [c \in LowerSet |-> Ch(UPPER, CHOOSE i \in 1..Len(LOWER) : Ch(LOWER, i) = c)]

LowerChar(c) == IF c \in UpperSet THEN ToLower[c] ELSE c
UpperChar(c) == IF c \in LowerSet THEN ToUpper[c] ELSE c

IsSpace(c) == c \in {" ", "\t", "\n"}

\* \w of the re module
IsWordChar(c) == c \in UpperSet \cup LowerSet \cup DigitSet \cup {"_"}

RECURSIVE LowerRange(_, _, _)
\* the characters a..b of s in lower case (split in halves)
LowerRange(s, a, b) ==
    IF a > b THEN ""
    ELSE IF a = b THEN LowerChar(Ch(s, a))
    ELSE LowerRange(s, a, (a + b) \div 2) \o LowerRange(s, (a + b) \div 2 + 1, b)

\* str.lower()
Lower(s) == LowerRange(s, 1, Len(s))

RECURSIVE UpperRange(_, _, _)
\* the characters a..b of s in upper case (split in halves)
UpperRange(s, a, b) ==
    IF a > b THEN ""
    ELSE IF a = b THEN UpperChar(Ch(s, a))
    ELSE UpperRange(s, a, (a + b) \div 2) \o UpperRange(s, (a + b) \div 2 + 1, b)

\* str.upper()
Upper(s) == UpperRange(s, 1, Len(s))

\* str.isupper(): at least one cased character and no lower-case one
IsUpper(s) ==
    /\ \E i \in 1..Len(s) : Ch(s, i) \in UpperSet
    /\ \A i \in 1..Len(s) : Ch(s, i) \notin LowerSet

\* k in p
Contains(k, p) ==
    \E i \in 1..(Len(p) - Len(k) + 1) : SubSeq(p, i, i + Len(k) - 1) = k

\* p.startswith(k)
StartsWith(p, k) == Len(k) <= Len(p) /\ SubSeq(p, 1, Len(k)) = k

\* str.strip()
Strip(s) ==
    IF \A i \in 1..Len(s) : IsSpace(Ch(s, i)) THEN ""
    ELSE LET a == CHOOSE i \in 1..Len(s) :
                      /\ ~IsSpace(Ch(s, i))
                      /\ \A j \in 1..(i - 1) : IsSpace(Ch(s, j))
             b == CHOOSE i \in 1..Len(s) :
                      /\ ~IsSpace(Ch(s, i))
                      /\ \A j \in (i + 1)..Len(s) : IsSpace(Ch(s, j))
         IN SubSeq(s, a, b)

\* the pieces of s between the positions in seps (positions of separator characters),
\* in order; empty pieces are kept
Pieces(s, seps) ==
    LET n == Cardinality(seps)
        \* k-th separator position, 0 for k = 0 and Len(s) + 1 for k = n + 1
        At(k) == IF k = 0 THEN 0
                 ELSE IF k = n + 1 THEN Len(s) + 1
                 ELSE CHOOSE i \in seps : Cardinality({j \in seps : j < i}) = k - 1
    IN [k \in 1..(n + 1) |-> SubSeq(s, At(k - 1) + 1, At(k) - 1)]

\* str.split(): the whitespace-delimited tokens
Split(s) ==
    SelectSeq(Pieces(s, {i \in 1..Len(s) : IsSpace(Ch(s, i))}), LAMBDA t : t # "")

\* str.split(sep) for a one-character separator: empty pieces are kept
SplitOn(s, sep) == Pieces(s, {i \in 1..Len(s) : Ch(s, i) = sep})

RECURSIVE JoinRange(_, _, _, _)
JoinRange(parts, sep, a, b) ==
    IF a > b THEN ""
    ELSE IF a = b THEN parts[a]
    ELSE JoinRange(parts, sep, a, (a + b) \div 2) \o sep
         \o JoinRange(parts, sep, (a + b) \div 2 + 1, b)

\* sep.join(parts)
Join(parts, sep) == JoinRange(parts, sep, 1, Len(parts))

\* ' '.join(s.split()): the whitespace normalization of names
Normalize(s) == Join(Split(s), " ")

\* index of the first occurrence of the character c in s at or after i (0: none)
FindChar(s, c, i) ==
    IF \E j \in i..Len(s) : Ch(s, j) = c
    THEN CHOOSE j \in i..Len(s) : Ch(s, j) = c /\ \A k \in i..(j - 1) : Ch(s, k) # c
    ELSE 0

-----------------------------------------------------------------------------
(* ensure_incident_naming                                                  *)

\* re.search(r'\bincident\s+solving\b', name, re.IGNORECASE)
HasIncidentSolving(name) ==
    \E i \in 1..(Len(name) - 7) :
        /\ Lower(SubSeq(name, i, i + 7)) = "incident"
        /\ (i = 1 \/ ~IsWordChar(Ch(name, i - 1)))
        /\ \E j \in (i + 9)..(Len(name) - 6) :
               /\ \A k \in (i + 8)..(j - 1) : IsSpace(Ch(name, k))
               /\ Lower(SubSeq(name, j, j + 6)) = "solving"
               /\ (j + 6 = Len(name) \/ ~IsWordChar(Ch(name, j + 7)))

\* the first loop with list.remove("solving") in place of the filter: only the first
\* stray "solving" is dropped and the rest of the tokens is kept as it is
IncidentFirstLoopRemoveOne(parts, i) ==
    IF \E k \in 1..Len(parts) : Lower(parts[k]) = "solving"
    THEN LET k == CHOOSE k \in 1..Len(parts) :
                      /\ Lower(parts[k]) = "solving"
                      /\ \A m \in 1..(k - 1) : Lower(parts[m]) # "solving"
         IN SubSeq(parts, i, k - 1) \o SubSeq(parts, k + 1, Len(parts))
    ELSE SubSeq(parts, i, Len(parts))

RECURSIVE IncidentFirstLoop(_, _)
\* first while loop: "solving" is put after every "incident", other "solving" dropped
IncidentFirstLoop(parts, i) ==
    IF i > Len(parts) THEN <<>>
    ELSE IF Lower(parts[i]) = "incident"
         THEN <<parts[i], "solving">> \o
              IncidentFirstLoop(parts,
                  IF i + 1 <= Len(parts) /\ Lower(parts[i + 1]) = "solving"
                  THEN i + 2 ELSE i + 1)
         ELSE IF Lower(parts[i]) = "solving"
              THEN IncidentFirstLoop(parts, i + 1)
              ELSE <<parts[i]>> \o IncidentFirstLoop(parts, i + 1)

\* index of the first "solving" at or after j, Len + 1 when there is none
NextSolving(new_parts, j) ==
    IF \E k \in j..Len(new_parts) : Lower(new_parts[k]) = "solving"
    THEN CHOOSE k \in j..Len(new_parts) :
             /\ Lower(new_parts[k]) = "solving"
             /\ \A m \in j..(k - 1) : Lower(new_parts[m]) # "solving"
    ELSE Len(new_parts) + 1

RECURSIVE IncidentSecondLoop(_, _)
\* second while loop: tokens between "incident" and "solving" are moved after
IncidentSecondLoop(new_parts, i) ==
    IF i > Len(new_parts) THEN <<>>
    ELSE IF i > 1 /\ Lower(new_parts[i - 1]) = "incident" /\ Lower(new_parts[i]) = "solving"
         THEN <<new_parts[i]>> \o IncidentSecondLoop(new_parts, i + 1)
         ELSE IF Lower(new_parts[i]) = "incident"
              THEN LET j == NextSolving(new_parts, i + 1)
                       app_parts == SubSeq(new_parts, i + 1, j - 1)
                   IN <<new_parts[i], "solving">> \o app_parts \o
                      IncidentSecondLoop(new_parts, IF j <= Len(new_parts) THEN j + 1 ELSE j)
              ELSE <<new_parts[i]>> \o IncidentSecondLoop(new_parts, i + 1)

ensure_incident_naming(name) ==
    IF HasIncidentSolving(name) THEN name
    ELSE Join(IncidentSecondLoop(IncidentFirstLoop(Split(name), 1), 1), " ")

-----------------------------------------------------------------------------
(* Parsing of the Parent Offering template                                 *)

\* start of the leftmost match of r'\[Parent\s+(.*?)\]' (re.I), 0 when none
ParentMatchAt(s, i) ==
    /\ i + 7 <= Len(s)
    /\ Lower(SubSeq(s, i, i + 6)) = "[parent"
    /\ IsSpace(Ch(s, i + 7))
    /\ FindChar(s, "]", i + 8) # 0
    /\ LET j == FindChar(s, "]", i + 8)
       IN \A k \in (i + 8)..(j - 1) :
              Ch(s, k) = "\n" => \A m \in (i + 8)..k : IsSpace(Ch(s, m))

extract_parent_info(parent_offering) ==
    IF \E i \in 1..Len(parent_offering) : ParentMatchAt(parent_offering, i)
    THEN LET i == CHOOSE i \in 1..Len(parent_offering) :
                      /\ ParentMatchAt(parent_offering, i)
                      /\ \A k \in 1..(i - 1) : ~ParentMatchAt(parent_offering, k)
             j == FindChar(parent_offering, "]", i + 8)
         IN Strip(SubSeq(parent_offering, i + 8, j - 1))
    ELSE ""

extract_catalog_name(parent_offering) ==
    LET j == FindChar(parent_offering, "]", 1)
    IN IF j = 0 THEN "" ELSE Strip(SubSeq(parent_offering, j + 1, Len(parent_offering)))

\* len(part) == 2 and part.isupper()
IsCode(part) == Len(part) = 2 /\ IsUpper(part)

\* value left in v by "for part in parts: if test(part): v = part", given the parts
\* that pass the test ("" when none does)
Last(passing) == IF Len(passing) = 0 THEN "" ELSE passing[Len(passing)]

\* the same loop with a break after the assignment
First(passing) == IF Len(passing) = 0 THEN "" ELSE passing[1]

\* [x] if x else []
Opt(x) == IF x = "" THEN <<>> ELSE <<x>>

Bracket(prefix_parts) == "[" \o Join(prefix_parts, " ") \o "]"

DS_COUNTRIES == {"UA", "MD", "RO", "TR"}
DIVISIONS == {"HS", "DS"}
DEPARTMENTS == {"IT", "HR", "Medical", "Business Services"}
no_prod_keywords == {"hardware", "mailbox", "network", "mobile", "security"}

get_division_and_country(parent_content, country, delivering_tag) ==
    IF country \in DS_COUNTRIES THEN "DS"
    ELSE LET division == First(SelectSeq(Split(parent_content), LAMBDA p : p \in DIVISIONS))
             delivering_parts == Split(delivering_tag)
             from_tag == IF division = "" /\ delivering_tag # "" /\ Len(delivering_parts) > 0
                            /\ delivering_parts[1] \in DIVISIONS
                         THEN delivering_parts[1] ELSE division
         IN IF from_tag = "" THEN "HS" ELSE from_tag

-----------------------------------------------------------------------------
(* Name builders                                                           *)

\* build_lvl2_name once the Parent Offering is parsed: parts0 are the tokens of its tag
Lvl2Name(parts0, catalog_name, sr_or_im, app, schedule_suffix, service_type_lvl2) ==
    LET has_sr_im == \E i \in 1..Len(parts0) : parts0[i] \in {"SR", "IM"}
        parts == IF has_sr_im THEN parts0 ELSE <<sr_or_im>> \o parts0
        sr_im_pos == Last(SelectSeq(parts, LAMBDA p : p \in {"SR", "IM"}))
        country == Last(SelectSeq(parts, LAMBDA p : p \notin {"SR", "IM"} /\ IsCode(p)
                                            /\ p \notin {"HS", "DS", "IT", "HR"}))
        division == Last(SelectSeq(parts, LAMBDA p : p \in DIVISIONS))
        dept == Last(SelectSeq(parts, LAMBDA p : p \notin {"SR", "IM"} /\ p \notin DIVISIONS
                                         /\ ~(IsCode(p) /\ p \notin {"HS", "DS", "IT", "HR"})
                                         /\ p \in DEPARTMENTS))
        prefix_parts == <<IF sr_im_pos # "" THEN sr_im_pos ELSE sr_or_im>>
                        \o <<IF country \in DS_COUNTRIES THEN "DS"
                             ELSE IF division # "" THEN division ELSE "HS">>
                        \o Opt(country) \o Opt(dept)
        name_parts == <<Bracket(prefix_parts), catalog_name>> \o Opt(app)
        with_prod == IF Contains("microsoft", Lower(Join(name_parts, " ")))
                     THEN name_parts ELSE name_parts \o <<"Prod">>
    IN ensure_incident_naming(
           Join(with_prod \o Opt(service_type_lvl2) \o <<schedule_suffix>>, " "))

build_lvl2_name(parent_offering, sr_or_im, app, schedule_suffix, service_type_lvl2) ==
    Lvl2Name(Split(extract_parent_info(parent_offering)), extract_catalog_name(parent_offering),
             sr_or_im, app, schedule_suffix, service_type_lvl2)

\* the parsing loop shared by build_corp_it_name, build_corp_dedicated_name and
\* build_recp_name: it stops at the first topic token
IsCorpTopic(p) == p \notin {"HS", "DS", "Parent", "RecP"} /\ ~IsCode(p)
\* the tokens the loop visits before its break
BeforeTopic(parts) ==
    IF \E i \in 1..Len(parts) : IsCorpTopic(parts[i])
    THEN SubSeq(parts, 1, (CHOOSE i \in 1..Len(parts) :
                              /\ IsCorpTopic(parts[i])
                              /\ \A k \in 1..(i - 1) : ~IsCorpTopic(parts[k])) - 1)
    ELSE parts
CorpCountry(parts) ==
    Last(SelectSeq(BeforeTopic(parts), LAMBDA p : IsCode(p) /\ p \notin DIVISIONS))
CorpTopic(parts) == First(SelectSeq(parts, IsCorpTopic))

\* the "delivering" part of a CORP prefix
DeliveringParts(parent_content, country, delivering_tag) ==
    IF delivering_tag # ""
    THEN (IF country \in DS_COUNTRIES THEN <<"DS", country>> ELSE Split(delivering_tag))
    ELSE <<get_division_and_country(parent_content, country, delivering_tag), country>>

\* build_corp_it_name once the Parent Offering is parsed
CorpItName(parent_content, catalog_name, sr_or_im, app, schedule_suffix, receiver, delivering_tag) ==
    LET parts == Split(parent_content)
        country == CorpCountry(parts)
        topic0 == CorpTopic(parts)
        division == get_division_and_country(parent_content, country, delivering_tag)
        prefix_parts == <<sr_or_im>>
                        \o DeliveringParts(parent_content, country, delivering_tag)
                        \o <<"CORP">>
                        \o (IF receiver # "" THEN <<receiver>> ELSE <<division, country>>)
                        \o <<"IT">>
        topic == IF topic0 = "" THEN "Software" ELSE topic0
        name_parts == <<Bracket(prefix_parts), topic, Lower(catalog_name)>> \o Opt(app)
                      \o (IF sr_or_im = "IM" THEN <<"solving">> ELSE <<>>)
                      \o <<schedule_suffix>>
    IN ensure_incident_naming(Join(name_parts, " "))

build_corp_it_name(parent_offering, sr_or_im, app, schedule_suffix, receiver, delivering_tag) ==
    CorpItName(extract_parent_info(parent_offering), extract_catalog_name(parent_offering),
               sr_or_im, app, schedule_suffix, receiver, delivering_tag)

\* build_corp_dedicated_name once the Parent Offering is parsed
CorpDedicatedName(parent_content, catalog_name, sr_or_im, app, schedule_suffix, receiver, delivering_tag) ==
    LET parts == Split(parent_content)
        country == CorpCountry(parts)
        prefix_parts == <<sr_or_im>>
                        \o DeliveringParts(parent_content, country, delivering_tag)
                        \o <<"CORP", receiver, "Dedicated Services">>
        name_parts == <<Bracket(prefix_parts), catalog_name>> \o Opt(app)
                      \o (IF sr_or_im = "IM" THEN <<"solving">> ELSE <<>>)
                      \o <<"Prod", schedule_suffix>>
    IN ensure_incident_naming(Join(name_parts, " "))

build_corp_dedicated_name(parent_offering, sr_or_im, app, schedule_suffix, receiver, delivering_tag) ==
    CorpDedicatedName(extract_parent_info(parent_offering),
                      extract_catalog_name(parent_offering),
                      sr_or_im, app, schedule_suffix, receiver, delivering_tag)

\* build_recp_name once the Parent Offering is parsed
RecpName(parent_content, catalog_name, sr_or_im, app, schedule_suffix, receiver, delivering_tag) ==
    LET parts == Split(parent_content)
        country == CorpCountry(parts)
        topic == CorpTopic(parts)
        division == get_division_and_country(parent_content, country, delivering_tag)
        parent_division == First(SelectSeq(parts, LAMBDA p : p \in DIVISIONS))
        prefix_parts == <<sr_or_im>>
                        \o (IF country \in DS_COUNTRIES THEN <<"DS", country>>
                            ELSE Opt(parent_division) \o Opt(country))
                        \o <<"CORP">>
                        \o (IF country \in DS_COUNTRIES THEN <<"DS", country>>
                            ELSE IF delivering_tag # "" THEN Split(delivering_tag)
                            ELSE <<division, country>>)
                        \o <<"IT">>
        name_parts == <<Bracket(prefix_parts)>> \o Opt(topic) \o <<Lower(catalog_name)>>
                      \o Opt(app)
                      \o (IF sr_or_im = "IM" THEN <<"solving">> ELSE <<>>)
                      \o <<"Prod", schedule_suffix>>
    IN ensure_incident_naming(Join(name_parts, " "))

build_recp_name(parent_offering, sr_or_im, app, schedule_suffix, receiver, delivering_tag) ==
    RecpName(extract_parent_info(parent_offering), extract_catalog_name(parent_offering),
             sr_or_im, app, schedule_suffix, receiver, delivering_tag)

\* build_corp_name once the Parent Offering is parsed
CorpName(parent_content, catalog_name, sr_or_im, app, schedule_suffix, receiver, delivering_tag) ==
    LET parts == Split(parent_content)
        country == Last(SelectSeq(parts, LAMBDA p : IsCode(p) /\ p \notin DIVISIONS))
        topic == Last(SelectSeq(parts, LAMBDA p : ~(IsCode(p) /\ p \notin DIVISIONS)
                                          /\ p \notin {"HS", "DS", "Parent", "RecP"}))
        division == get_division_and_country(parent_content, country, delivering_tag)
        delivering_parts == Split(delivering_tag)
        prefix_parts == <<sr_or_im>>
                        \o (IF delivering_tag # ""
                            THEN (IF country \in DS_COUNTRIES THEN <<"DS", country>>
                                  ELSE SubSeq(delivering_parts, 1,
                                              IF Len(delivering_parts) < 2
                                              THEN Len(delivering_parts) ELSE 2))
                            ELSE <<division, country>>)
                        \o <<"CORP", receiver>> \o Opt(topic)
        body == <<catalog_name>> \o Opt(app)
                \o (IF sr_or_im = "SR" THEN <<>> ELSE <<"solving">>)
                \o <<"Prod", schedule_suffix>>
    IN ensure_incident_naming(Join(<<Bracket(prefix_parts)>> \o body, " "))

build_corp_name(parent_offering, sr_or_im, app, schedule_suffix, receiver, delivering_tag) ==
    CorpName(extract_parent_info(parent_offering), extract_catalog_name(parent_offering),
             sr_or_im, app, schedule_suffix, receiver, delivering_tag)

\* the prefix with the department tag left out
DeptPrefixNoDept(sr_or_im, division, country, dept) ==
    <<sr_or_im>>
    \o (IF country \in DS_COUNTRIES THEN <<"DS", country>>
        ELSE Opt(division) \o Opt(country))

\* prefix of the Medical, DAK and HR branches
DeptPrefix(sr_or_im, division, country, dept) ==
    <<sr_or_im>>
    \o (IF country \in DS_COUNTRIES THEN <<"DS", country>>
        ELSE Opt(division) \o Opt(country))
    \o <<dept>>

\* the application as appended by the IT and standard branches
HardwareApp(current_name_str, app) ==
    IF Contains("hardware", Lower(current_name_str))
    THEN (IF Upper(app) = "UPS" THEN "UPS" ELSE Lower(app))
    ELSE app

\* exclude_prod of the standard branch taken as set for every catalog name
StandardExcludeProdAlways(catalog_name) == Len(catalog_name) >= 0

\* exclude_prod of the standard branch (recomputed from the catalog name alone)
StandardExcludeProd(catalog_name) ==
    \E keyword \in no_prod_keywords : Contains(keyword, Lower(catalog_name))

\* exclude_prod as first computed, from every part of the Parent Offering
AnySourceExcludeProd(parent_offering, catalog_name, parent_content) ==
    \E keyword \in no_prod_keywords :
        \/ Contains(keyword, Lower(parent_offering))
        \/ Contains(keyword, Lower(catalog_name))
        \/ Contains(keyword, Lower(parent_content))

\* build_standard_name once the Parent Offering is parsed
StandardName(parent_offering, parent_content, catalog_name, sr_or_im, app, schedule_suffix, special_dept, receiver) ==
    LET parts == Split(parent_content)
        country0 == First(SelectSeq(parts, LAMBDA p : IsCode(p) /\ p \notin {"HS", "DS", "IT", "HR"}))
        exclude_prod == AnySourceExcludeProd(parent_offering, catalog_name, parent_content)
        division == Last(SelectSeq(parts, LAMBDA p : p \in DIVISIONS))
        \* country of the Medical, HR and IT branches (the DAK branch also skips "DAK",
        \* which is no two-letter token)
        country == Last(SelectSeq(parts, LAMBDA p : p \notin DIVISIONS /\ IsCode(p)
                                            /\ p \notin {"IT", "HR"}))
        topic_parts == SelectSeq(parts, LAMBDA p : p \notin DIVISIONS /\ ~IsCode(p))
    IN
    IF special_dept = "Medical" THEN
        LET topic == IF Len(topic_parts) > 0 THEN Join(topic_parts, " ") ELSE "Software"
        IN ensure_incident_naming(
               Bracket(DeptPrefix(sr_or_im, division, country, "Medical"))
               \o " " \o topic \o " " \o Lower(catalog_name) \o " " \o schedule_suffix)
    ELSE IF special_dept = "DAK" THEN
        ensure_incident_naming(
            Bracket(DeptPrefix(sr_or_im, division, country, "Business Services"))
            \o " " \o catalog_name
            \o (IF app # "" THEN " " \o app ELSE "")
            \o " " \o schedule_suffix)
    ELSE IF special_dept = "HR" THEN
        LET topic == IF Len(topic_parts) > 0 THEN Join(topic_parts, " ") ELSE "Software"
        IN ensure_incident_naming(
               Bracket(DeptPrefix(sr_or_im, division, country, "HR"))
               \o " " \o topic \o " " \o Lower(catalog_name)
               \o (IF app # "" THEN " " \o app ELSE "")
               \o " " \o schedule_suffix)
    ELSE IF special_dept = "IT" THEN
        LET it_topic_parts == SelectSeq(parts, LAMBDA p : p \notin {"HS", "DS", "RecP"}
                                                          /\ ~IsCode(p))
            catalog_words == Split(catalog_name)
            topic == IF Len(it_topic_parts) > 0 THEN Join(it_topic_parts, " ")
                     ELSE First(SelectSeq(catalog_words,
                              LAMBDA w : Lower(w) \notin {"the", "a", "an", "and", "or",
                                                          "for", "of", "in", "on", "to"}))
            prefix_parts == <<sr_or_im>>
                            \o <<IF country = "DE" /\ receiver # "" THEN Split(receiver)[1]
                                 ELSE IF country \in DS_COUNTRIES THEN "DS"
                                 ELSE IF division # "" THEN division ELSE "HS">>
                            \o Opt(country) \o <<"IT">>
            head == <<IF topic # "" THEN Bracket(prefix_parts) \o " " \o topic
                      ELSE Bracket(prefix_parts)>>
                    \o <<Lower(catalog_name)>>
            name_parts == head
                          \o (IF app # "" THEN <<HardwareApp(Join(head, " "), app)>> ELSE <<>>)
                          \o (IF sr_or_im = "IM" THEN <<"solving">> ELSE <<>>)
            topic_exclude_prod == \E keyword \in no_prod_keywords :
                                      Contains(keyword, Lower(topic))
        IN ensure_incident_naming(
               Join(name_parts
                    \o (IF ~exclude_prod /\ ~topic_exclude_prod THEN <<"Prod">> ELSE <<>>)
                    \o <<schedule_suffix>>, " "))
    ELSE
        LET country_code == Last(SelectSeq(parts, LAMBDA p : p \notin DIVISIONS /\ IsCode(p)
                                                     /\ p \notin {"HS", "DS", "IT", "HR"}))
            IsCountry(p) == IsCode(p) /\ p \notin {"HS", "DS", "IT", "HR"}
            dept == Last(SelectSeq(parts, LAMBDA p : p \notin DIVISIONS /\ ~IsCountry(p)
                                             /\ p \in DEPARTMENTS))
            other_parts == SelectSeq(parts, LAMBDA p : p \notin DIVISIONS /\ ~IsCountry(p)
                                                       /\ p \notin DEPARTMENTS)
            name_parts == <<sr_or_im>>
                          \o <<IF country0 \in DS_COUNTRIES THEN "DS"
                               ELSE IF division # "" THEN division ELSE "HS">>
                          \o Opt(country_code) \o other_parts
                          \o (IF (\E i \in 1..Len(other_parts) : other_parts[i] = "RecP")
                                 /\ dept = ""
                              THEN <<"IT">> ELSE Opt(dept))
            head == <<Bracket(name_parts), catalog_name>>
            final_parts == head
                           \o (IF app # "" THEN <<HardwareApp(Join(head, " "), app)>> ELSE <<>>)
                           \o (IF sr_or_im = "IM" THEN <<"solving">> ELSE <<>>)
                           \o (IF ~StandardExcludeProd(catalog_name) THEN <<"Prod">> ELSE <<>>)
                           \o <<schedule_suffix>>
        IN ensure_incident_naming(Join(final_parts, " "))

build_standard_name(parent_offering, sr_or_im, app, schedule_suffix, special_dept, receiver) ==
    StandardName(parent_offering, extract_parent_info(parent_offering),
                 extract_catalog_name(parent_offering), sr_or_im, app, schedule_suffix,
                 special_dept, receiver)

-----------------------------------------------------------------------------
(* Keyword Filter (closures of run_generator; c is the run's arguments)    *)

\* a dict.get(key, default) on a function whose domain is the set of keys
Get(d, key, default) == IF key \in DOMAIN d THEN d[key] ELSE default

\* [k.strip() for k in pieces if k.strip()]
StrippedNonEmpty(pieces) ==
    SelectSeq([i \in 1..Len(pieces) |-> Strip(pieces[i])], LAMBDA k : k # "")

parse_keywords(keyword_string) ==
    IF Strip(keyword_string) = "" THEN [keywords |-> <<>>, use_and |-> FALSE]
    ELSE IF Contains(",", keyword_string)
         THEN [keywords |-> StrippedNonEmpty(SplitOn(keyword_string, ",")), use_and |-> TRUE]
         ELSE [keywords |-> StrippedNonEmpty(SplitOn(keyword_string, "\n")), use_and |-> FALSE]

\* all(k.lower() in text for k in keywords)
AllIn(keywords, text) == \A i \in 1..Len(keywords) : Contains(Lower(keywords[i]), text)
\* any(k.lower() in text for k in keywords)
AnyIn(keywords, text) == \E i \in 1..Len(keywords) : Contains(Lower(keywords[i]), text)

\* the column check with the OR branch taken for comma-separated keywords as well
ColumnKeywordsOkAny(keyword_string, value) ==
    LET kw == parse_keywords(keyword_string)
        text == Normalize(Lower(value))
    IN \/ Len(kw.keywords) = 0
       \/ AnyIn(kw.keywords, text)

\* one of the two column checks of row_keywords_ok
ColumnKeywordsOk(keyword_string, value) ==
    LET kw == parse_keywords(keyword_string)
        text == Normalize(Lower(value))
    IN \/ Len(kw.keywords) = 0
       \/ IF kw.use_and THEN AllIn(kw.keywords, text) ELSE AnyIn(kw.keywords, text)

row_keywords_ok(c, row) ==
    /\ ColumnKeywordsOk(c.keywords_parent, row.parent)
    /\ ColumnKeywordsOk(c.keywords_child, row.name)

\* the exclusion check with the child name left out
row_excluded_keywords_okParentOnly(c, row) ==
    LET kw == parse_keywords(c.keywords_excluded)
        p == Lower(row.parent)
    IN \/ Len(kw.keywords) = 0
       \/ IF kw.use_and THEN ~AllIn(kw.keywords, p) ELSE ~AnyIn(kw.keywords, p)

row_excluded_keywords_ok(c, row) ==
    LET kw == parse_keywords(c.keywords_excluded)
        p == Lower(row.parent)
        n == Lower(row.name)
    IN \/ Len(kw.keywords) = 0
       \/ IF kw.use_and
          THEN ~(AllIn(kw.keywords, p) \/ AllIn(kw.keywords, n))
          ELSE ~(AnyIn(kw.keywords, p) \/ AnyIn(kw.keywords, n))

discard_lc == {"retired", "retiring", "end of life", "end of support"}

\* the check with only Phase and Status read
lc_okPhaseStatus(row) ==
    \A v \in {row.phase, row.status} : Lower(Strip(v)) \notin discard_lc

lc_ok(row) ==
    \A v \in {row.phase, row.status, row.lc_stage, row.lc_status} :
        Lower(Strip(v)) \notin discard_lc

name_prefix_ok(c, name) ==
    \/ StartsWith(Upper(Strip(name)), "[" \o Upper(c.sr_or_im) \o " ")
    \/ StartsWith(Upper(Strip(name)), "[" \o Upper(c.sr_or_im) \o "\t")

\* the vectorized pre-filter on the raw, lower-cased Parent Offering column
ParentPreFilter(c, row) ==
    LET kw == parse_keywords(c.keywords_parent)
    IN \/ Strip(c.keywords_parent) = ""
       \/ Len(kw.keywords) = 0
       \/ /\ AnyIn(kw.keywords, Lower(row.parent))
          /\ kw.use_and => row_keywords_ok(c, row)

\* the Service Commitments condition of the level-1 mask
CommitmentsOk(row) ==
    LET v == Strip(row.commitments)
    IN (IF v = "nan" THEN "" ELSE v) # "-"

\* the mask that selects base_pool from a source sheet
CandidateMask(c, level, row) ==
    /\ ParentPreFilter(c, row)
    /\ row_keywords_ok(c, row)
    /\ row_excluded_keywords_ok(c, row)
    /\ level = 1 => name_prefix_ok(c, row.name)
    /\ lc_ok(row)
    /\ level = 1 => CommitmentsOk(row)

-----------------------------------------------------------------------------
(* Row Expander: helpers                                                   *)

RECURSIVE Flatten(_)
Flatten(seqs) == IF Len(seqs) = 0 THEN <<>> ELSE Head(seqs) \o Flatten(Tail(seqs))

\* re.split(r'[,\n;]+', raw): empty pieces are dropped by the caller
SplitApps(raw) == Pieces(raw, {i \in 1..Len(raw) : Ch(raw, i) \in {",", "\n", ";"}})

\* all_apps; the None sentinel of a run without applications is ""
AllApps(new_apps) ==
    LET apps == Flatten([i \in 1..Len(new_apps) |->
                            StrippedNonEmpty(SplitApps(new_apps[i]))])
    IN IF Len(apps) = 0 THEN <<"">> ELSE apps

\* the receivers HS and DS for every country
ReceiversBoth(country) == <<"HS " \o country, "DS " \o country>>

Receivers(country) ==
    IF country \in {"CY", "UA", "MD", "RO", "TR"} THEN <<"DS " \o country>>
    ELSE <<"HS " \o country, "DS " \o country>>

\* the lookup under the country code whatever the receiver
get_schedule_suffixes_for_countryByCountry(country, receiver, schedule_settings_per_country, default_schedule_suffixes) ==
    IF country \in DOMAIN schedule_settings_per_country
    THEN StrippedNonEmpty(SplitOn(schedule_settings_per_country[country], "\n"))
    ELSE default_schedule_suffixes

get_schedule_suffixes_for_country(country, receiver, schedule_settings_per_country, default_schedule_suffixes) ==
    LET key == IF country = "PL" /\ receiver # "" THEN receiver ELSE country
    IN IF key \in DOMAIN schedule_settings_per_country
       THEN StrippedNonEmpty(SplitOn(schedule_settings_per_country[key], "\n"))
       ELSE default_schedule_suffixes

\* zip(support_list, managed_list) after the padding loop
ZipGroups(support_list, managed_list) ==
    [i \in 1..Len(support_list) |->
        <<support_list[i],
          IF i <= Len(managed_list) THEN managed_list[i] ELSE support_list[i]>>]

\* called with division = None for every country but PL
get_support_groups_list_for_country(country, support_group, support_groups_per_country, managed_by_groups_per_country) ==
    LET country_support_groups == Get(support_groups_per_country, country, support_group)
        country_managed_groups == Get(managed_by_groups_per_country, country, "")
    IN IF country_support_groups # "" /\ Contains("\n", country_support_groups)
       THEN LET support_list == StrippedNonEmpty(SplitOn(country_support_groups, "\n"))
                managed_list ==
                    IF country_managed_groups # "" /\ Contains("\n", country_managed_groups)
                    THEN StrippedNonEmpty(SplitOn(country_managed_groups, "\n"))
                    ELSE IF country_managed_groups # ""
                         THEN [i \in 1..Len(support_list) |-> Strip(country_managed_groups)]
                         ELSE support_list
            IN ZipGroups(support_list, managed_list)
       ELSE LET single_support == IF country_support_groups # "" THEN country_support_groups
                                  ELSE support_group
                single_managed == IF country_managed_groups # "" THEN country_managed_groups
                                  ELSE single_support
            IN IF single_support # "" THEN << <<single_support, single_managed>> >>
               ELSE << <<"", "">> >>

\* support_groups_list of one combination (PL by receiver, DE limited to the receiver)
SupportGroupsList(c, country, recv) ==
    IF country = "PL"
    THEN LET country_supports == Get(c.support_groups_per_country, recv, "")
             country_managed == Get(c.managed_by_groups_per_country, recv, "")
             sg == Strip(country_supports)
         IN IF country_supports # ""
            THEN << <<sg, Strip(IF country_managed # "" THEN country_managed ELSE sg)>> >>
            ELSE << <<"", "">> >>
    ELSE LET all == get_support_groups_list_for_country(country, c.support_group,
                        c.support_groups_per_country, c.managed_by_groups_per_country)
             matching == SelectSeq(all, LAMBDA g : StartsWith(Strip(g[1]), recv))
         IN IF country = "DE" /\ recv # "" /\ Len(matching) > 0 THEN matching ELSE all

\* the Parent Offering rebuilt with the receiver's division for a DE file
DeParentOffering(c, parent_full, recv) ==
    LET parts == Split(extract_parent_info(parent_full))
        kept == SelectSeq(parts, LAMBDA p : p \notin DIVISIONS)
    IN "[Parent " \o Join(<<c.sr_or_im, Split(recv)[1]>> \o kept, " ") \o "] "
       \o extract_catalog_name(parent_full)

\* special_dept of the run
SpecialDept(c) ==
    IF c.convention \in {"IT", "HR", "Medical", "DAK"} THEN c.convention ELSE "None"

\* the name built for one combination ("Build name based on type")
NewName(c, country, level, parent_full, app, recv, schedule_suffix) ==
    IF level = 2
    THEN build_lvl2_name(parent_full, c.sr_or_im, app, schedule_suffix, c.service_type_lvl2)
    ELSE IF c.convention = "corp"
    THEN build_corp_name(parent_full, c.sr_or_im, app, schedule_suffix, recv, c.delivering_tag)
    ELSE IF c.convention = "recp"
    THEN build_recp_name(parent_full, c.sr_or_im, app, schedule_suffix, recv, c.delivering_tag)
    ELSE IF c.convention = "corp_it"
    THEN build_corp_it_name(parent_full, c.sr_or_im, app, schedule_suffix, recv,
                            c.delivering_tag)
    ELSE IF c.convention = "corp_dedicated"
    THEN build_corp_dedicated_name(parent_full, c.sr_or_im, app, schedule_suffix, recv,
                                   c.delivering_tag)
    ELSE build_standard_name(IF country = "DE" /\ recv # ""
                             THEN DeParentOffering(c, parent_full, recv) ELSE parent_full,
                             c.sr_or_im, app, schedule_suffix, SpecialDept(c), recv)

-----------------------------------------------------------------------------
(* run_generator                                                           *)

\* the (file, level) pairs in processing order
Pairs(c) ==
    Flatten([f \in 1..Len(c.files) |->
                IF c.use_lvl2 THEN << <<f, 1>>, <<f, 2>> >> ELSE << <<f, 1>> >>])

SheetRows(c, f, level) == IF level = 1 THEN c.files[f].lvl1 ELSE c.files[f].lvl2

\* the names of a file collected as they are written, whitespace not collapsed
FileNamesRaw(file) ==
    {file.lvl1[i].name : i \in {k \in 1..Len(file.lvl1) : file.lvl1[k].name # "nan"}}
    \cup
    {file.lvl2[i].name : i \in {k \in 1..Len(file.lvl2) : file.lvl2[k].name # "nan"}}

\* names a file contributes to existing_offerings: both sheets, empty cells dropped
FileNames(file) ==
    {Normalize(file.lvl1[i].name) : i \in {k \in 1..Len(file.lvl1) : file.lvl1[k].name # "nan"}}
    \cup
    {Normalize(file.lvl2[i].name) : i \in {k \in 1..Len(file.lvl2) : file.lvl2[k].name # "nan"}}

\* create_new_parent_row
create_new_parent_row(new_parent_offering, new_parent) ==
    [name |-> "", parent |-> new_parent_offering, parent_ci |-> new_parent,
     commitments |-> "", phase |-> "Catalog", status |-> "Operational",
     lc_stage |-> "Operational", lc_status |-> "In Use"]

\* list[min(i, len(list) - 1)] if list else "" (i counted from 1 here)
PickLine(list, k) ==
    IF Len(list) = 0 THEN "" ELSE list[IF k < Len(list) THEN k ELSE Len(list)]

\* the synthetic rows of new-parent mode, one per (offering, parent) line pair
SyntheticRows(c) ==
    LET parent_offerings_list == StrippedNonEmpty(SplitOn(c.new_parent_offering, "\n"))
        parents_list == StrippedNonEmpty(SplitOn(c.new_parent, "\n"))
        n == IF Len(parent_offerings_list) > Len(parents_list)
             THEN Len(parent_offerings_list) ELSE Len(parents_list)
    IN [i \in 1..n |-> create_new_parent_row(PickLine(parent_offerings_list, i),
                                             PickLine(parents_list, i))]

\* the rows a (file, level) pair reads: the sheet, or the synthetic rows
PoolSource(c, f, level) ==
    IF c.use_new_parent THEN SyntheticRows(c) ELSE SheetRows(c, f, level)

\* indices (in sheet order) of the rows of base_pool
BasePool(c, f, level) ==
    LET rows == PoolSource(c, f, level)
    IN SelectSeq([i \in 1..Len(rows) |-> i],
                 LAMBDA i : c.use_new_parent \/ CandidateMask(c, level, rows[i]))

\* the combinations of one candidate row, in loop order: app, receiver, schedule
RowCombos(c, country, ri) ==
    LET all_apps == AllApps(c.new_apps)
        receivers == Receivers(country)
    IN Flatten([a \in 1..Len(all_apps) |->
           Flatten([r \in 1..Len(receivers) |->
               LET scheds == get_schedule_suffixes_for_country(country, receivers[r],
                                 c.schedule_settings_per_country, c.schedule_suffixes)
               IN [k \in 1..Len(scheds) |->
                      [row |-> ri, app |-> all_apps[a], recv |-> receivers[r],
                       schedule_suffix |-> scheds[k]]]])])

\* first marks the combination that starts a candidate row (base_row is the row itself)
MarkFirst(combos) == [i \in 1..Len(combos) |->
                         [row |-> combos[i].row, app |-> combos[i].app,
                          recv |-> combos[i].recv,
                          schedule_suffix |-> combos[i].schedule_suffix,
                          first |-> i = 1]]

\* the combinations of the rows of base_pool (pool: their indices), in loop order
SheetCombos(c, f, pool) ==
    Flatten([i \in 1..Len(pool) |-> MarkFirst(RowCombos(c, c.files[f].country, pool[i]))])

\* re.search(rf"\b{recv}\b", name, re.I) for a receiver that starts and ends with a letter
ContainsWord(recv, name) ==
    \E i \in 1..(Len(name) - Len(recv) + 1) :
        /\ Lower(SubSeq(name, i, i + Len(recv) - 1)) = Lower(recv)
        /\ (i = 1 \/ ~IsWordChar(Ch(name, i - 1)))
        /\ (i + Len(recv) - 1 = Len(name) \/ ~IsWordChar(Ch(name, i + Len(recv))))

\* the row the output row is copied from: for a DE file the first candidate row
\* naming the receiver replaces base_row, and stays until replaced again
BaseRowFor(c, f, level, pool, current, recv) ==
    LET rows == PoolSource(c, f, level)
        hits == SelectSeq(pool, LAMBDA i : ContainsWord(recv, rows[i].name))
    IN IF c.files[f].country = "DE" /\ ~c.use_new_parent /\ Len(hits) > 0
       THEN hits[1] ELSE current

\* missing_schedule of one combination: the upper-cased names of the sheet, split into
\* the CORP class and the rest, are searched for the schedule text as it is given
MissingSchedule(c, f, level, schedule_suffix) ==
    LET rows == IF c.use_new_parent THEN <<>> ELSE SheetRows(c, f, level)
        all_country_names_for_schedules == [i \in 1..Len(rows) |-> Upper(rows[i].name)]
        IsCorpName(name) == \/ Contains("CORP", name) \/ Contains("DEDICATED", name)
                            \/ Contains("RECP", name)
        corp_names_for_schedules ==
            SelectSeq(all_country_names_for_schedules, IsCorpName)
        non_corp_names_for_schedules ==
            SelectSeq(all_country_names_for_schedules, LAMBDA name : ~IsCorpName(name))
        is_corp_type == c.convention \in {"corp", "recp", "corp_it", "corp_dedicated"}
        names == IF is_corp_type THEN corp_names_for_schedules
                 ELSE non_corp_names_for_schedules
        schedule_pattern == Strip(schedule_suffix)
    IN /\ Len(all_country_names_for_schedules) > 0
       /\ \A i \in 1..Len(names) : ~Contains(schedule_pattern, names[i])

\* one line of a commitment block
CommitLine(cc, agreement, sr_or_im, target, schedule_suffix, duration) ==
    "[" \o cc \o "] " \o agreement \o " " \o sr_or_im \o " " \o target \o " "
    \o schedule_suffix \o " P1-P4 " \o duration

\* the block with the OLA line written for IM as it is for SR
commit_blockOlaAlways(cc, schedule_suffix, rsp_duration, rsl_duration, sr_or_im) ==
    Join(<<CommitLine(cc, "SLA", sr_or_im, "RSP", schedule_suffix, rsp_duration),
           CommitLine(cc, "SLA", sr_or_im, "RSL", schedule_suffix, rsl_duration),
           CommitLine(cc, "OLA", sr_or_im, "RSL", schedule_suffix, rsl_duration)>>, "\n")

commit_block(cc, schedule_suffix, rsp_duration, rsl_duration, sr_or_im) ==
    IF sr_or_im = "IM"
    THEN Join(<<CommitLine(cc, "SLA", "IM", "RSP", schedule_suffix, rsp_duration),
                CommitLine(cc, "SLA", "IM", "RSL", schedule_suffix, rsl_duration)>>, "\n")
    ELSE Join(<<CommitLine(cc, "SLA", "SR", "RSP", schedule_suffix, rsp_duration),
                CommitLine(cc, "SLA", "SR", "RSL", schedule_suffix, rsl_duration),
                CommitLine(cc, "OLA", "SR", "RSL", schedule_suffix, rsl_duration)>>, "\n")

\* the last position of the digits \d+ matches from position i, i - 1 without a digit
DigitsEnd(s, i) ==
    LET js == {j \in i..Len(s) : \A k \in i..j : Ch(s, k) \in DigitSet}
    IN IF js = {} THEN i - 1 ELSE CHOOSE j \in js : \A k \in js : k <= j

\* the last position of the match of P\d+-P\d+ that starts at position i, 0 without one
PValuesEnd(s, i) ==
    IF i > Len(s) \/ Ch(s, i) # "P" THEN 0
    ELSE LET a == DigitsEnd(s, i + 1)
         IN IF a < i + 1 \/ a + 2 > Len(s) \/ SubSeq(s, a + 1, a + 2) # "-P" THEN 0
            ELSE LET b == DigitsEnd(s, a + 3)
                 IN IF b < a + 3 THEN 0 ELSE b

\* p_values: group 1 of re.search(r'(P\d+-P\d+)', line), "P1-P4" without a match
PValues(line) ==
    LET starts == {i \in 1..Len(line) : PValuesEnd(line, i) > 0}
    IN IF starts = {} THEN "P1-P4"
       ELSE LET i == CHOOSE i \in starts : \A k \in starts : i <= k
            IN SubSeq(line, i, PValuesEnd(line, i))

\* re.sub(tag + r"\s+[^P]+", f"{tag} {sched} ", line) applied from position i on
RECURSIVE SubSchedule(_, _, _, _)
SubSchedule(line, tag, sched, i) ==
    LET starts == {j \in i..(Len(line) - 4) :
                      /\ SubSeq(line, j, j + 2) = tag
                      /\ IsSpace(Ch(line, j + 3))
                      /\ Ch(line, j + 4) # "P"}
    IN IF starts = {} THEN SubSeq(line, i, Len(line))
       ELSE LET j == CHOOSE j \in starts : \A k \in starts : j <= k
                ends == {e \in (j + 4)..Len(line) :
                            \A k \in (j + 4)..e : Ch(line, k) # "P"}
                e == CHOOSE e \in ends : \A k \in ends : k <= e
            IN SubSeq(line, i, j - 1) \o tag \o " " \o sched \o " "
               \o SubSchedule(line, tag, sched, e + 1)

\* re.sub(r"(P\d+-P\d+)\s+.*$", f"{p_values} {duration}", line)
SubDuration(line, p_values, duration) ==
    LET starts == {i \in 1..Len(line) :
                      /\ PValuesEnd(line, i) > 0
                      /\ PValuesEnd(line, i) < Len(line)
                      /\ IsSpace(Ch(line, PValuesEnd(line, i) + 1))}
    IN IF starts = {} THEN line
       ELSE LET i == CHOOSE i \in starts : \A k \in starts : i <= k
            IN SubSeq(line, 1, i - 1) \o p_values \o " " \o duration

\* the body of the loop for one stripped non-empty line
UpdateLine(line, sched, rsp, rsl) ==
    IF Contains("RSP", line)
    THEN SubDuration(SubSchedule(line, "RSP", sched, 1), PValues(line), rsp)
    ELSE IF Contains("RSL", line) \/ Contains("OLA", line)
    THEN SubDuration(SubSchedule(line, "RSL", sched, 1), PValues(line), rsl)
    ELSE line

\* has_ola and country_code are assigned and never read
update_commitments(orig, sched, rsp, rsl, sr_or_im, country) ==
    LET lines == StrippedNonEmpty(SplitOn(orig, "\n"))
    IN Join([i \in 1..Len(lines) |-> UpdateLine(lines[i], sched, rsp, rsl)], "\n")

\* custom_commit_block
custom_commit_block(cc, sr_or_im, rsp_enabled, rsl_enabled, rsp_schedule, rsl_schedule, rsp_priority, rsl_priority, rsp_time, rsl_time) ==
    LET rsp_line == "[" \o cc \o "] SLA " \o sr_or_im \o " RSP " \o rsp_schedule \o " "
                    \o rsp_priority \o " " \o rsp_time
        rsl_line(agreement) ==
            "[" \o cc \o "] " \o agreement \o " " \o sr_or_im \o " RSL " \o rsl_schedule
            \o " " \o rsl_priority \o " " \o rsl_time
        rsp_lines == IF rsp_enabled /\ rsp_schedule # "" /\ rsp_priority # "" /\ rsp_time # ""
                     THEN <<rsp_line>> ELSE <<>>
        rsl_lines == IF rsl_enabled /\ rsl_schedule # "" /\ rsl_priority # "" /\ rsl_time # ""
                     THEN IF sr_or_im = "SR" THEN <<rsl_line("SLA"), rsl_line("OLA")>>
                          ELSE <<rsl_line("SLA")>>
                     ELSE <<>>
    IN Join(rsp_lines \o rsl_lines, "\n")

\* the Service Commitments cell of an output row copied from a row with the cell orig
ServiceCommitments(c, country, level, orig, missing_schedule, schedule_suffix) ==
    LET orig_comm == Strip(orig)
        fresh == commit_block(country, schedule_suffix, c.rsp_duration, c.rsl_duration,
                              c.sr_or_im)
        updated == update_commitments(orig_comm, schedule_suffix, c.rsp_duration,
                                      c.rsl_duration, c.sr_or_im, country)
    IN IF missing_schedule
       THEN IF orig_comm \in {"", "-", "nan", "NaN"} THEN fresh ELSE updated
       ELSE IF level = 2 /\ orig_comm \in {"", "-", "nan", "NaN"} THEN ""
       ELSE IF c.use_custom_commitments /\ c.custom_commitments_str # ""
       THEN c.custom_commitments_str
       ELSE IF c.use_custom_commitments /\ c.commitment_country # ""
       THEN custom_commit_block(c.commitment_country, c.sr_or_im, c.rsp_enabled,
                                c.rsl_enabled, c.rsp_schedule, c.rsl_schedule,
                                c.rsp_priority, c.rsl_priority, c.rsp_time, c.rsl_time)
       ELSE IF orig_comm \in {"", "-"} THEN fresh ELSE updated

\* the loop over support_groups_list without the test of the key against seen
RECURSIVE AppendGroupsNoSeen(_, _, _, _)
AppendGroupsNoSeen(groups, row, seen_keys, acc) ==
    IF Len(groups) = 0 THEN [seen |-> seen_keys, rows |-> acc]
    ELSE AppendGroupsNoSeen(Tail(groups), row, seen_keys,
             Append(acc, [row EXCEPT !.support_group = groups[1][1],
                                     !.managed_by_group = groups[1][2]]))

\* the rows appended for one combination: the loop over support_groups_list
RECURSIVE AppendGroups(_, _, _, _)
AppendGroups(groups, row, seen_keys, acc) ==
    IF Len(groups) = 0 THEN [seen |-> seen_keys, rows |-> acc]
    ELSE LET key == <<Normalize(row.name), row.recv, row.app, row.schedule_suffix,
                      groups[1][1], groups[1][2]>>
         IN IF key \in seen_keys
            THEN AppendGroups(Tail(groups), row, seen_keys, acc)
            ELSE AppendGroups(Tail(groups), row, seen_keys \cup {key},
                     Append(acc, [row EXCEPT !.support_group = groups[1][1],
                                             !.managed_by_group = groups[1][2]]))

-----------------------------------------------------------------------------
(* Bounded inputs                                                          *)

MaxFiles == 2        \* input files of a run
MaxAppEntries == 1   \* entries of new_apps
MaxTokens == 3       \* tokens of a name given to ensure_incident_naming

\* sequences over S of length at most n
SeqsUpTo(S, n) == UNION {[1..k -> S] : k \in 0..n}

\* sequences without repetition
Distinct(q) == \A i, j \in 1..Len(q) : i # j => q[i] # q[j]

SourceRow(name, parent, commitments, lc_status) ==
    [name |-> name, parent |-> parent, parent_ci |-> "nan", commitments |-> commitments,
     phase |-> "Catalog", status |-> "Operational", lc_stage |-> "Operational",
     lc_status |-> lc_status]

FilePL ==
    [country |-> "PL",
     lvl1 |-> <<
        SourceRow("[SR HS PL IT] Software assistance Prod Mon-Fri 9-17",
                  "[Parent HS PL IT] Software assistance",
                  "[PL] SLA SR RSP Mon-Fri 9-17 P1-P4 2h", "In Use"),
        SourceRow("[SR HS PL IT] Hardware configuration Mon-Fri 9-17",
                  "[Parent HS PL IT] Hardware  configuration",
                  "[PL] SLA SR RSP Mon-Fri 9-17 P1-P4 2h", "In Use"),
        SourceRow("[SR DS PL IT] Software assistance Prod Mon-Fri 9-17",
                  "[Parent DS PL IT] Software assistance",
                  "[PL] SLA SR RSP Mon-Fri 9-17 P1-P4 2h", "Retired "),
        SourceRow("[IM HS PL IT] Software incident solving Prod Mon-Fri 9-17",
                  "[Parent HS PL IT] Software incident",
                  "nan", "In Use") >>,
     lvl2 |-> <<
        SourceRow("[SR HS PL IT] Software assistance Prod Application issue Mon-Fri 9-17",
                  "[Parent HS PL IT] Software assistance", "nan", "In Use"),
        [SourceRow("[SR DS PL IT] Software assistance Prod Application issue Mon-Fri 9-17",
                   "[Parent DS PL IT] Software assistance", "nan", "In Use")
            EXCEPT !.lc_stage = "End of Life"] >>]

FileUA ==
    [country |-> "UA",
     lvl1 |-> <<
        SourceRow("[SR DS UA IT] Software assistance Prod Mon-Fri 9-17",
                  "[Parent HS UA IT] Software assistance",
                  "[UA] SLA SR RSP Mon-Fri 9-17 P1-P4 2h", "In Use"),
        SourceRow("[SR HS PL IT] Software assistance  Outlook Prod Mon-Fri 9-17",
                  "[Parent HS PL IT] Software assistance",
                  "-", "In Use") >>,
     lvl2 |-> <<
        SourceRow("[SR DS UA IT] Software  assistance Teams Prod Mon-Fri 9-17",
                  "[Parent DS UA IT] Network access", "nan", "In Use") >>]

FileDE ==
    [country |-> "DE",
     lvl1 |-> <<
        SourceRow("[SR HS DE IT] Software assistance Prod Mon-Fri 9-17",
                  "[Parent HS DE IT] Software assistance",
                  "[DE] SLA SR RSP Mon-Fri 9-17 P1-P4 2h", "In Use"),
        SourceRow("[SR DS DE IT] Software assistance Prod Mon-Fri 9-17",
                  "[Parent DS DE IT] Software assistance",
                  "[DE] SLA SR RSP Mon-Fri 9-17 P1-P4 2h", "In Use"),
        SourceRow("[IM DS DE IT] Mailbox incident solving Mon-Fri 9-17",
                  "[Parent DS DE IT] Mailbox incident",
                  "[DE] SLA IM RSP Mon-Fri 9-17 P1-P4 2h", "In Use") >>,
     lvl2 |-> <<>>]

FileLib == <<FilePL, FileUA, FileDE>>

FileSeqs == {q \in SeqsUpTo({FileLib[i] : i \in 1..Len(FileLib)}, MaxFiles) : Distinct(q)}

AppPool == {"Outlook", "Teams, Outlook"}
AppLists == SeqsUpTo(AppPool, MaxAppEntries)

ParentKeywordPool ==
    {"", "software assistance", "hardware configuration", "software, hs",
     "mailbox\nhardware configuration"}
ChildKeywordPool == {"", "assistance, prod"}
ExcludedKeywordPool == {"", "configuration mon\nmailbox", "software, ua"}
ConventionPool ==
    {"standard", "corp", "recp", "corp_it", "corp_dedicated", "IT", "HR", "Medical", "DAK"}

NoGroups == [support_group |-> "", managed_by_group |-> "",
             support_groups_per_country |-> <<>>, managed_by_groups_per_country |-> <<>>]
CountryGroups ==
    [support_group |-> "Global Service Desk", managed_by_group |-> "",
     support_groups_per_country |->
         ("DE" :> "HS DE IT Service Desk HC\nHS DE IT Service Desk - MCC\nDS DE IT Service Desk - Labs")
         @@ ("HS PL" :> "HS PL IT Service Desk") @@ ("DS PL" :> "DS PL IT Service Desk"),
     managed_by_groups_per_country |-> ("DE" :> "DE IT Managers")]

BaseConfig ==
    [files |-> <<>>, keywords_parent |-> "", keywords_child |-> "", keywords_excluded |-> "",
     new_apps |-> <<"Outlook">>, schedule_suffixes |-> <<"Mon-Fri 9-17">>,
     schedule_settings_per_country |-> <<>>,
     sr_or_im |-> "SR", convention |-> "standard", delivering_tag |-> "",
     use_lvl2 |-> FALSE, service_type_lvl2 |-> "",
     use_new_parent |-> FALSE, new_parent_offering |-> "", new_parent |-> "",
     support_group |-> "", managed_by_group |-> "",
     support_groups_per_country |-> <<>>, managed_by_groups_per_country |-> <<>>,
     rsp_duration |-> "4h", rsl_duration |-> "10d",
     use_custom_commitments |-> FALSE, custom_commitments_str |-> "",
     commitment_country |-> "", rsp_enabled |-> FALSE, rsl_enabled |-> FALSE,
     rsp_schedule |-> "", rsl_schedule |-> "", rsp_priority |-> "", rsl_priority |-> "",
     rsp_time |-> "", rsl_time |-> ""]

WithGroups(c, g) ==
    [c EXCEPT !.support_group = g.support_group, !.managed_by_group = g.managed_by_group,
              !.support_groups_per_country = g.support_groups_per_country,
              !.managed_by_groups_per_country = g.managed_by_groups_per_country]

\* runs over one input file
OneFile == {q \in FileSeqs : Len(q) = 1}

\* runs that vary the keyword filters
FilterConfigs ==
    {[BaseConfig EXCEPT !.files = fs, !.keywords_parent = kp, !.keywords_child = kc,
                        !.keywords_excluded = kx, !.use_lvl2 = l2] :
        fs \in OneFile, kp \in ParentKeywordPool, kc \in ChildKeywordPool,
        kx \in ExcludedKeywordPool, l2 \in BOOLEAN}

\* runs that vary the naming convention and SR/IM
ConventionConfigs ==
    {[BaseConfig EXCEPT !.files = fs, !.convention = conv, !.sr_or_im = sr] :
        fs \in OneFile, conv \in ConventionPool, sr \in {"SR", "IM"}}

\* runs with support groups per country
GroupConfigs ==
    {WithGroups([BaseConfig EXCEPT !.files = fs, !.new_apps = apps], CountryGroups) :
        fs \in FileSeqs, apps \in AppLists}

\* the modes of a run: plain, with level 2, new-parent mode, per-country schedules
ModePool ==
    {[use_lvl2 |-> FALSE, use_new_parent |-> FALSE, schedules |-> <<>>],
     [use_lvl2 |-> TRUE, use_new_parent |-> FALSE, schedules |-> <<>>],
     [use_lvl2 |-> FALSE, use_new_parent |-> TRUE, schedules |-> <<>>],
     [use_lvl2 |-> TRUE, use_new_parent |-> FALSE,
      schedules |-> ("HS PL" :> "Mon-Fri 8-16\nMon-Fri 9-17") @@ ("UA" :> "")]}

\* runs that vary the mode, the input files and the applications
ModeConfigs ==
    {[BaseConfig EXCEPT !.files = fs, !.new_apps = apps, !.use_lvl2 = m.use_lvl2,
                        !.service_type_lvl2 = IF m.use_lvl2 THEN "Application issue" ELSE "",
                        !.use_new_parent = m.use_new_parent,
                        !.new_parent_offering =
                            IF m.use_new_parent
                            THEN "[Parent HS PL IT] Software assistance\n[Parent DS UA] Network access"
                            ELSE "",
                        !.new_parent = IF m.use_new_parent THEN "Software" ELSE "",
                        !.schedule_settings_per_country = m.schedules] :
        fs \in FileSeqs, apps \in AppLists, m \in ModePool}

\* a DE sheet with two HS DE rows and one DS DE row
FileDEHardware ==
    [FileDE EXCEPT !.lvl1 =
        Append(@, SourceRow("[SR HS DE IT] Hardware configuration Mon-Fri 9-17",
                            "[Parent HS DE IT] Hardware configuration",
                            "[DE] SLA SR RSP Mon-Fri 9-17 P1-P4 8h", "In Use"))]

\* runs over the DE sheet, all candidate rows or only those of the HS DE parents
ReceiverConfigs ==
    {[BaseConfig EXCEPT !.files = <<FileDEHardware>>, !.keywords_parent = kp,
                        !.new_apps = apps] :
        kp \in {"", "hs de"}, apps \in AppLists}

\* runs that vary the Service Commitments settings, with a schedule the source names
\* have and one they do not have
CommitmentConfigs ==
    {[BaseConfig EXCEPT !.files = fs, !.schedule_suffixes = <<sched>>,
                        !.use_lvl2 = TRUE, !.service_type_lvl2 = "Application issue",
                        !.use_custom_commitments = custom,
                        !.custom_commitments_str = str,
                        !.commitment_country = cc,
                        !.rsp_enabled = TRUE, !.rsp_schedule = "Mon-Fri 8-16",
                        !.rsp_priority = "P1", !.rsp_time = "1h",
                        !.rsl_enabled = TRUE, !.rsl_schedule = "Mon-Fri 8-16",
                        !.rsl_priority = "P1-P2", !.rsl_time = "2d"] :
        fs \in OneFile, sched \in {"9-17", "Mon-Sun 24/7"}, custom \in BOOLEAN,
        str \in {"", "[PL] SLA SR RSP Mon-Fri 8-16 P1 1h"}, cc \in {"", "PL"}}

Configs ==
    FilterConfigs \cup ConventionConfigs \cup GroupConfigs \cup ModeConfigs
    \cup CommitmentConfigs \cup ReceiverConfigs

\* value of call and ret outside the function harness
NoCall == "none"

\* base_pool before the first sheet is read
NoPool == [file |-> 0, level |-> 0, rows |-> <<>>]

Init ==
    /\ cfg \in Configs
    /\ pc = IF Len(cfg.files) = 0 THEN "process" ELSE "collect"
    /\ existing_offerings = {}
    /\ seen = {}
    /\ sheets_data = <<>>
    /\ base_pool = NoPool
    /\ work = <<>>
    /\ pos = 1
    /\ base_row = 0
    /\ dup_raised = FALSE
    /\ result = "running"
    /\ outfile = <<>>
    /\ call = NoCall
    /\ ret = NoCall

\* one iteration of the first loop: the names of one input file are collected
CollectFile ==
    /\ pc = "collect"
    /\ pos <= Len(cfg.files)
    /\ existing_offerings' = existing_offerings \cup FileNames(cfg.files[pos])
    /\ IF pos = Len(cfg.files)
       THEN pc' = "process" /\ pos' = 1
       ELSE pc' = "collect" /\ pos' = pos + 1
    /\ UNCHANGED <<cfg, seen, sheets_data, base_pool, work, base_row, dup_raised, result,
                   outfile, call, ret>>

\* start of one (file, level) pair: base_pool is selected
BeginSheet ==
    /\ pc = "process"
    /\ pos <= Len(Pairs(cfg))
    /\ LET f == Pairs(cfg)[pos][1]
           level == Pairs(cfg)[pos][2]
       IN /\ base_pool' = [file |-> f, level |-> level, rows |-> BasePool(cfg, f, level)]
          /\ work' = SheetCombos(cfg, f, base_pool'.rows)
          /\ IF Len(work') = 0
             THEN pc' = "process" /\ pos' = pos + 1
             ELSE pc' = "expand" /\ pos' = pos
    /\ base_row' = 0
    /\ UNCHANGED <<cfg, existing_offerings, seen, sheets_data, dup_raised, result, outfile,
                   call, ret>>

\* the body of the innermost loops for one combination and its new_name: the check
\* against existing_offerings (ValueError, caught by the except of the pair), then the
\* rows of its support groups are appended
ExpandCombo(f, level, country, combo, new_name, base) ==
    LET row == [sheet_key |-> country \o " lvl" \o (IF level = 1 THEN "1" ELSE "2"),
                file |-> f, level |-> level, src |-> combo.row, base |-> base,
                name |-> new_name, recv |-> combo.recv, app |-> combo.app,
                schedule_suffix |-> combo.schedule_suffix,
                missing_schedule |-> MissingSchedule(cfg, f, level, combo.schedule_suffix),
                commitments |->
                    ServiceCommitments(cfg, country, level,
                        PoolSource(cfg, f, level)[base].commitments,
                        MissingSchedule(cfg, f, level, combo.schedule_suffix),
                        combo.schedule_suffix),
                support_group |-> "", managed_by_group |-> ""]
        added == AppendGroups(SupportGroupsList(cfg, country, combo.recv), row, seen, <<>>)
    IN /\ base_row' = base
       /\ IF Normalize(new_name) \in existing_offerings
          THEN /\ dup_raised' = TRUE
               /\ work' = <<>>
               /\ pc' = "process"
               /\ pos' = pos + 1
               /\ UNCHANGED <<seen, sheets_data>>
          ELSE /\ seen' = added.seen
               /\ sheets_data' = sheets_data \o added.rows
               /\ work' = Tail(work)
               /\ IF Len(work) = 1
                  THEN pc' = "process" /\ pos' = pos + 1
                  ELSE pc' = "expand" /\ pos' = pos
               /\ UNCHANGED dup_raised

\* one (row, app, receiver, schedule) combination of the current sheet
ExpandStep ==
    /\ pc = "expand"
    /\ Len(work) > 0
    /\ LET f == Pairs(cfg)[pos][1]
           level == Pairs(cfg)[pos][2]
           country == cfg.files[f].country
           combo == Head(work)
       IN ExpandCombo(f, level, country, combo,
                      NewName(cfg, country, level, PoolSource(cfg, f, level)[combo.row].parent,
                              combo.app, combo.recv, combo.schedule_suffix),
                      BaseRowFor(cfg, f, level, base_pool.rows,
                                 IF combo.first THEN combo.row ELSE base_row, combo.recv))
    /\ UNCHANGED <<cfg, existing_offerings, base_pool, result, outfile, call, ret>>

\* the end of the run without the no-matches check: a workbook is always written
FinishWritesAlways ==
    /\ pc = "process"
    /\ pos > Len(Pairs(cfg))
    /\ result' = "returned"
    /\ outfile' = sheets_data
    /\ pc' = "done"
    /\ UNCHANGED <<cfg, existing_offerings, seen, sheets_data, base_pool, work, pos,
                   base_row, dup_raised, call, ret>>

\* after the last pair: the no-matches check, then the workbook is written
Finish ==
    /\ pc = "process"
    /\ pos > Len(Pairs(cfg))
    /\ IF Len(sheets_data) = 0
       THEN result' = "no_matches_error" /\ outfile' = <<>>
       ELSE result' = "returned" /\ outfile' = sheets_data
    /\ pc' = "done"
    /\ UNCHANGED <<cfg, existing_offerings, seen, sheets_data, base_pool, work, pos,
                   base_row, dup_raised, call, ret>>

Next == CollectFile \/ BeginSheet \/ ExpandStep \/ Finish

Spec == Init /\ [][Next]_vars

-----------------------------------------------------------------------------
(* Properties of run_generator                                             *)

\* the non-empty stripped fragments of a keyword string split at sep
Fragments(keyword_string, sep) ==
    {Strip(SplitOn(keyword_string, sep)[i]) : i \in 1..Len(SplitOn(keyword_string, sep))}
    \ {""}

\* the rows of the sheet base_pool was selected from
PoolSheet == SheetRows(cfg, base_pool.file, base_pool.level)

\* a sheet has been read and filtered
SheetFiltered == base_pool.file # 0 /\ ~cfg.use_new_parent

\* the filters of candidate selection other than the two inclusion keyword strings
OtherFiltersOk(row) ==
    /\ row_excluded_keywords_ok(cfg, row)
    /\ lc_ok(row)
    /\ base_pool.level = 1 => name_prefix_ok(cfg, row.name) /\ CommitmentsOk(row)

\* C1: once a generated name has matched an existing name, the run ends with the
\* duplicate-name error and no workbook is written
C1_DuplicateAbortsRun ==
    (pc = "done" /\ dup_raised) => (result = "duplicate_error" /\ outfile = <<>>)

\* C2 as stated: no two rows of the written workbook have the same normalized Name
C2_NamesUnique ==
    pc = "done" =>
        \A i, j \in 1..Len(outfile) :
            i # j => Normalize(outfile[i].name) # Normalize(outfile[j].name)

\* the in-run key of an output row
RowKey(r) ==
    <<Normalize(r.name), r.recv, r.app, r.schedule_suffix, r.support_group,
      r.managed_by_group>>

\* C2 (amended): no two rows of the written workbook have the same combination of
\* normalized Name, receiver, application, schedule, support group and managed-by group
C2_KeysUnique ==
    pc = "done" =>
        \A i, j \in 1..Len(outfile) : i # j => RowKey(outfile[i]) # RowKey(outfile[j])

\* a workbook was written in which two rows with different keys carry the same Name
C2_Witness ==
    /\ pc = "done"
    /\ result = "returned"
    /\ \E i, j \in 1..Len(outfile) :
           /\ i # j
           /\ Normalize(outfile[i].name) = Normalize(outfile[j].name)
           /\ RowKey(outfile[i]) # RowKey(outfile[j])

\* the whitespace-collapsed names of both sheets of every input file of the run
InputNames ==
    UNION {{Normalize(cfg.files[f].lvl1[i].name) : i \in 1..Len(cfg.files[f].lvl1)}
           \cup {Normalize(cfg.files[f].lvl2[i].name) : i \in 1..Len(cfg.files[f].lvl2)} :
           f \in 1..Len(cfg.files)}

\* C3: no accumulated row has a name whose whitespace-collapsed form is the
\* whitespace-collapsed form of a name of any input file of the run
C3_NoRowCollidesWithInput ==
    \A i \in 1..Len(sheets_data) : Normalize(sheets_data[i].name) \notin InputNames

\* a collision was rejected in a run over several files that accumulated other rows,
\* and the colliding name is not in the file the rejected row came from
C3_Witness ==
    /\ dup_raised
    /\ Len(sheets_data) > 0
    /\ Len(cfg.files) > 1
    /\ \E f \in 1..Len(cfg.files) :
           /\ \A i \in 1..Len(sheets_data) : sheets_data[i].file # f
           /\ \E g \in (f + 1)..Len(cfg.files) :
                  \E i \in 1..Len(sheets_data) : sheets_data[i].file = g

\* C4: the run ends with the no-matches error exactly when no row was accumulated,
\* then no workbook is written; otherwise it returns with the workbook written
C4_NoMatchesIffNoRows ==
    pc = "done" =>
        /\ (result = "no_matches_error") <=> (Len(sheets_data) = 0)
        /\ result = "no_matches_error" => outfile = <<>>
        /\ Len(sheets_data) > 0 => (result = "returned" /\ outfile = sheets_data)

\* a run over input files that ended with the no-matches error
C4_Witness ==
    pc = "done" /\ result = "no_matches_error" /\ Len(cfg.files) > 0 /\ outfile = <<>>

\* every comma-separated fragment of keyword_string occurs in value, ignoring case,
\* value taken with its whitespace collapsed
AllFragmentsIn(keyword_string, value) ==
    \A k \in Fragments(keyword_string, ",") : Contains(Lower(k), Normalize(Lower(value)))

\* C5: with a comma in a keyword string every candidate row contains every fragment
\* in the matching column; with both strings empty no row is filtered by keywords
C5_CommaKeywordsAreAnd ==
    SheetFiltered =>
        /\ Contains(",", cfg.keywords_parent) =>
               \A k \in 1..Len(base_pool.rows) :
                   AllFragmentsIn(cfg.keywords_parent, PoolSheet[base_pool.rows[k]].parent)
        /\ Contains(",", cfg.keywords_child) =>
               \A k \in 1..Len(base_pool.rows) :
                   AllFragmentsIn(cfg.keywords_child, PoolSheet[base_pool.rows[k]].name)
        /\ (cfg.keywords_parent = "" /\ cfg.keywords_child = "") =>
               \A i \in 1..Len(PoolSheet) :
                   OtherFiltersOk(PoolSheet[i]) =>
                       \E k \in 1..Len(base_pool.rows) : base_pool.rows[k] = i

\* comma keywords selected some rows of a sheet and rejected a row that lacks a
\* fragment although it passes every other filter
C5_Witness ==
    /\ SheetFiltered
    /\ Contains(",", cfg.keywords_parent)
    /\ Len(base_pool.rows) > 0
    /\ \E i \in 1..Len(PoolSheet) :
           /\ ~AllFragmentsIn(cfg.keywords_parent, PoolSheet[i].parent)
           /\ OtherFiltersOk(PoolSheet[i])
           /\ ColumnKeywordsOk(cfg.keywords_child, PoolSheet[i].name)

\* C6: without a comma in the parent keywords, a row passes the parent keyword filter
\* whenever some newline-separated fragment occurs, ignoring case, in its Parent
\* Offering taken with its whitespace collapsed
C6_AnyFragmentSelectsRow ==
    (SheetFiltered /\ ~Contains(",", cfg.keywords_parent)
     /\ Fragments(cfg.keywords_parent, "\n") # {}) =>
        \A i \in 1..Len(PoolSheet) :
            (/\ \E k \in Fragments(cfg.keywords_parent, "\n") :
                    Contains(Lower(k), Normalize(Lower(PoolSheet[i].parent)))
             /\ ColumnKeywordsOk(cfg.keywords_child, PoolSheet[i].name)
             /\ OtherFiltersOk(PoolSheet[i]))
            => \E k \in 1..Len(base_pool.rows) : base_pool.rows[k] = i

\* the exclusion condition of a row: with a comma every fragment occurs in the Parent
\* Offering or every fragment occurs in the name; without, some fragment occurs in either
Excluded(row) ==
    IF Contains(",", cfg.keywords_excluded)
    THEN /\ Fragments(cfg.keywords_excluded, ",") # {}
         /\ \/ \A k \in Fragments(cfg.keywords_excluded, ",") :
                   Contains(Lower(k), Lower(row.parent))
            \/ \A k \in Fragments(cfg.keywords_excluded, ",") :
                   Contains(Lower(k), Lower(row.name))
    ELSE \E k \in Fragments(cfg.keywords_excluded, "\n") :
             Contains(Lower(k), Lower(row.parent)) \/ Contains(Lower(k), Lower(row.name))

\* C7: reading from input sheets, no candidate row and no source row of an accumulated
\* row satisfies the exclusion condition, at level 1 and at level 2
C7_ExcludedNeverExpanded ==
    ~cfg.use_new_parent =>
        /\ base_pool.file # 0 =>
               \A k \in 1..Len(base_pool.rows) : ~Excluded(PoolSheet[base_pool.rows[k]])
        /\ \A i \in 1..Len(sheets_data) :
               ~Excluded(SheetRows(cfg, sheets_data[i].file,
                                   sheets_data[i].level)[sheets_data[i].src])

\* a sheet from which rows were selected holds a row that satisfies the exclusion
\* condition and passes the inclusion keywords and every other filter
C7_Witness ==
    /\ SheetFiltered
    /\ Len(base_pool.rows) > 0
    /\ \E i \in 1..Len(PoolSheet) :
           /\ Excluded(PoolSheet[i])
           /\ row_keywords_ok(cfg, PoolSheet[i])
           /\ lc_ok(PoolSheet[i])
           /\ base_pool.level = 1 =>
                  name_prefix_ok(cfg, PoolSheet[i].name) /\ CommitmentsOk(PoolSheet[i])

\* Phase, Status, Life Cycle Stage or Life Cycle Status of a row, trimmed and ignoring
\* case, is one of retired, retiring, end of life, end of support
Discarded(row) ==
    \E v \in {row.phase, row.status, row.lc_stage, row.lc_status} :
        Lower(Strip(v)) \in {"retired", "retiring", "end of life", "end of support"}

\* C16: reading from input sheets, no candidate row, no source row of an accumulated row
\* and no row an accumulated row was copied from is discarded, at level 1 and at level 2
C16_NoDiscardedSource ==
    ~cfg.use_new_parent =>
        /\ base_pool.file # 0 =>
               \A k \in 1..Len(base_pool.rows) : ~Discarded(PoolSheet[base_pool.rows[k]])
        /\ \A i \in 1..Len(sheets_data) :
               LET rows == SheetRows(cfg, sheets_data[i].file, sheets_data[i].level)
               IN ~Discarded(rows[sheets_data[i].src])
                  /\ ~Discarded(rows[sheets_data[i].base])

\* rows were selected from a level-2 sheet that holds a discarded row which passes the
\* keyword filters
C16_Witness ==
    /\ SheetFiltered
    /\ base_pool.level = 2
    /\ Len(base_pool.rows) > 0
    /\ \E i \in 1..Len(PoolSheet) :
           /\ Discarded(PoolSheet[i])
           /\ row_keywords_ok(cfg, PoolSheet[i])
           /\ row_excluded_keywords_ok(cfg, PoolSheet[i])

\* the Service Commitments cell of a row is empty
EmptyCommitments(row) == Strip(row.commitments) \in {"", "nan"}

\* C17: at level 1 no candidate row has an empty Service Commitments cell; at level 2 a
\* row with an empty cell that passes the other filters is a candidate
C17_EmptyCommitmentsRejected ==
    SheetFiltered =>
        IF base_pool.level = 1
        THEN \A k \in 1..Len(base_pool.rows) : ~EmptyCommitments(PoolSheet[base_pool.rows[k]])
        ELSE \A i \in 1..Len(PoolSheet) :
                 (/\ EmptyCommitments(PoolSheet[i])
                  /\ ParentPreFilter(cfg, PoolSheet[i])
                  /\ row_keywords_ok(cfg, PoolSheet[i])
                  /\ row_excluded_keywords_ok(cfg, PoolSheet[i])
                  /\ lc_ok(PoolSheet[i]))
                 => \E k \in 1..Len(base_pool.rows) : base_pool.rows[k] = i

\* the combination about to be expanded raises the duplicate-name ValueError
RaisesInPair ==
    /\ pc = "expand"
    /\ Len(work) > 0
    /\ LET f == Pairs(cfg)[pos][1]
           level == Pairs(cfg)[pos][2]
           combo == Head(work)
       IN Normalize(NewName(cfg, cfg.files[f].country, level,
                            PoolSource(cfg, f, level)[combo.row].parent,
                            combo.app, combo.recv, combo.schedule_suffix))
              \in existing_offerings

\* C22: when an exception is raised while a (file, level) pair is processed, the rows
\* kept for the workbook hold no row generated from that pair, the rows accumulated
\* before the exception included, and the rows of the other pairs are kept
C22_PairSkippedAsWhole ==
    [][RaisesInPair =>
          /\ \A i \in 1..Len(sheets_data') :
                 <<sheets_data'[i].file, sheets_data'[i].level>> # Pairs(cfg)[pos]
          /\ \A i \in 1..Len(sheets_data) :
                 <<sheets_data[i].file, sheets_data[i].level>> # Pairs(cfg)[pos]
                     => \E j \in 1..Len(sheets_data') : sheets_data'[j] = sheets_data[i]]_vars

\* the names of the sheet a row was generated from that are in the class searched for
\* its schedule: the names with CORP, DEDICATED or RECP for a CORP-type convention,
\* the other names otherwise
ScheduleClass(r) ==
    LET rows == SheetRows(cfg, r.file, r.level)
        corp == {i \in 1..Len(rows) : \/ Contains("CORP", Upper(rows[i].name))
                                      \/ Contains("DEDICATED", Upper(rows[i].name))
                                      \/ Contains("RECP", Upper(rows[i].name))}
    IN {rows[i].name : i \in (IF cfg.convention \in {"corp", "recp", "corp_it", "corp_dedicated"}
                              THEN corp ELSE (1..Len(rows)) \ corp)}

\* C23: a generated row is flagged as missing-schedule exactly when its source sheet is
\* not empty and no name of the sheet's relevant class contains the schedule text of
\* the row; a row whose schedule text occurs in such a name is not flagged
C23_FlaggedIffScheduleAbsent ==
    ~cfg.use_new_parent =>
        \A i \in 1..Len(sheets_data) :
            LET r == sheets_data[i]
            IN r.missing_schedule <=>
                   /\ Len(SheetRows(cfg, r.file, r.level)) > 0
                   /\ \A name \in ScheduleClass(r) :
                          ~Contains(Strip(r.schedule_suffix), name)

\* the receivers of each country named by the claim, FR standing for any other country
ReceiverTable ==
    ("PL" :> <<"HS PL", "DS PL">>) @@ ("DE" :> <<"HS DE", "DS DE">>)
    @@ ("CY" :> <<"DS CY">>) @@ ("UA" :> <<"DS UA">>) @@ ("MD" :> <<"DS MD">>)
    @@ ("RO" :> <<"DS RO">>) @@ ("TR" :> <<"DS TR">>) @@ ("FR" :> <<"HS FR", "DS FR">>)

\* C27: the receivers a candidate row is expanded over depend only on the country of
\* the input file: HS and DS for PL, DE and any other country, DS alone for CY, UA, MD,
\* RO and TR; so the combinations of a sheet cover exactly these receivers for every
\* candidate row, and no generated row of a DS-only country has an HS receiver
C27_ReceiversByCountry ==
    /\ \A country \in DOMAIN ReceiverTable : Receivers(country) = ReceiverTable[country]
    /\ \A i \in 1..Len(sheets_data) :
           LET r == sheets_data[i]
               expected == ReceiverTable[cfg.files[r.file].country]
           IN \E k \in 1..Len(expected) : r.recv = expected[k]
    /\ (pc = "expand" /\ base_row = 0 /\ cfg.schedule_settings_per_country = <<>>) =>
           LET expected == ReceiverTable[cfg.files[base_pool.file].country]
           IN \A k \in 1..Len(base_pool.rows) :
                  {work[j].recv : j \in {n \in 1..Len(work) : work[n].row = base_pool.rows[k]}}
                      = {expected[n] : n \in 1..Len(expected)}

\* a workbook was written with a row of a UA file for DS UA and a row of a PL file for
\* HS PL
C27_Witness ==
    /\ pc = "done"
    /\ \E i, j \in 1..Len(outfile) :
           /\ cfg.files[outfile[i].file].country = "UA" /\ outfile[i].recv = "DS UA"
           /\ cfg.files[outfile[j].file].country = "PL" /\ outfile[j].recv = "HS PL"

\* C30: for a DE file outside new-parent mode, an output row is copied from its own
\* candidate row or from the first candidate row that names its receiver, never from a
\* row chosen for another receiver or in an earlier iteration
C30_BaseRowOfOwnReceiver ==
    \A i \in 1..Len(sheets_data) :
        LET r == sheets_data[i]
            rows == PoolSource(cfg, r.file, r.level)
            hits == SelectSeq(BasePool(cfg, r.file, r.level),
                              LAMBDA k : ContainsWord(r.recv, rows[k].name))
        IN (cfg.files[r.file].country = "DE" /\ ~cfg.use_new_parent)
               => \/ r.base = r.src
                  \/ Len(hits) > 0 /\ r.base = hits[1]

\* the Service Commitments cell of the source row an output row is copied from
SourceCommitments(r) == Strip(PoolSource(cfg, r.file, r.level)[r.base].commitments)

\* C29: with use_custom_commitments set and custom_commitments_str given, every output
\* row copied from a row with Service Commitments carries custom_commitments_str,
\* whether or not its schedule was found in the source names
C29_CustomCommitmentsWritten ==
    (cfg.use_custom_commitments /\ cfg.custom_commitments_str # "") =>
        \A i \in 1..Len(sheets_data) :
            SourceCommitments(sheets_data[i]) \notin {"", "-", "nan", "NaN"}
                => sheets_data[i].commitments = cfg.custom_commitments_str

\* a row with custom commitments written: its schedule was found in the source names
C29_CustomWritten ==
    \E i \in 1..Len(sheets_data) :
        /\ cfg.use_custom_commitments /\ cfg.custom_commitments_str # ""
        /\ ~sheets_data[i].missing_schedule
        /\ sheets_data[i].commitments = cfg.custom_commitments_str

-----------------------------------------------------------------------------
(* The Name Builder functions called on their own                          *)

\* the variables of run_generator, idle while a function is called on its own
runVars == <<cfg, existing_offerings, seen, sheets_data, base_pool, work, pos, base_row,
             dup_raised, result, outfile>>

RunIdle ==
    /\ cfg = BaseConfig
    /\ existing_offerings = {}
    /\ seen = {}
    /\ sheets_data = <<>>
    /\ base_pool = NoPool
    /\ work = <<>>
    /\ pos = 1
    /\ base_row = 0
    /\ dup_raised = FALSE
    /\ result = "running"
    /\ outfile = <<>>

NameParentPool ==
    {"[Parent HS UA IT] Software assistance",
     "[Parent DS MD HR] Onboarding support",
     "[Parent RO] Network access",
     "[Parent TR IT] Mailbox incident",
     "[Parent HS PL Hardware] Configuration",
     "[Parent HS PL IT] Software assistance",
     "[Parent DS DE Medical] Health check",
     "[Parent HS PL IT] Software incident",
     "[Parent HS PL IT] Software incident solving"}
NameAppPool == {"", "Outlook", "Network Monitor", "Incident Tracker"}
NameReceiverPool == {"", "DS UA", "HS PL"}
NameDeliveringPool == {"", "HS UA"}
SpecialDeptPool == {"None", "IT", "HR", "Medical", "DAK"}
ServiceTypePool == {"", "Application issue"}

InitNames ==
    /\ pc = "call"
    /\ call \in [parent_offering : NameParentPool, sr_or_im : {"SR", "IM"},
                 app : NameAppPool, schedule_suffix : {"Mon-Fri 9-17"},
                 receiver : NameReceiverPool, delivering_tag : NameDeliveringPool]
    /\ ret = NoCall
    /\ RunIdle

CallStandard ==
    /\ pc = "call"
    /\ pc' = "returned"
    /\ \E special_dept \in SpecialDeptPool :
           ret' = [builder |-> "build_standard_name", arg |-> special_dept,
                   name |-> build_standard_name(call.parent_offering, call.sr_or_im,
                                call.app, call.schedule_suffix, special_dept,
                                call.receiver)]
    /\ UNCHANGED <<call, runVars>>

CallLvl2 ==
    /\ pc = "call"
    /\ pc' = "returned"
    /\ \E service_type_lvl2 \in ServiceTypePool :
           ret' = [builder |-> "build_lvl2_name", arg |-> service_type_lvl2,
                   name |-> build_lvl2_name(call.parent_offering, call.sr_or_im, call.app,
                                call.schedule_suffix, service_type_lvl2)]
    /\ UNCHANGED <<call, runVars>>

CallCorp ==
    /\ pc = "call"
    /\ pc' = "returned"
    /\ ret' = [builder |-> "build_corp_name", arg |-> "",
               name |-> build_corp_name(call.parent_offering, call.sr_or_im, call.app,
                            call.schedule_suffix, call.receiver, call.delivering_tag)]
    /\ UNCHANGED <<call, runVars>>

CallRecp ==
    /\ pc = "call"
    /\ pc' = "returned"
    /\ ret' = [builder |-> "build_recp_name", arg |-> "",
               name |-> build_recp_name(call.parent_offering, call.sr_or_im, call.app,
                            call.schedule_suffix, call.receiver, call.delivering_tag)]
    /\ UNCHANGED <<call, runVars>>

CallCorpIt ==
    /\ pc = "call"
    /\ pc' = "returned"
    /\ ret' = [builder |-> "build_corp_it_name", arg |-> "",
               name |-> build_corp_it_name(call.parent_offering, call.sr_or_im, call.app,
                            call.schedule_suffix, call.receiver, call.delivering_tag)]
    /\ UNCHANGED <<call, runVars>>

CallCorpDedicated ==
    /\ pc = "call"
    /\ pc' = "returned"
    /\ ret' = [builder |-> "build_corp_dedicated_name", arg |-> "",
               name |-> build_corp_dedicated_name(call.parent_offering, call.sr_or_im,
                            call.app, call.schedule_suffix, call.receiver,
                            call.delivering_tag)]
    /\ UNCHANGED <<call, runVars>>

NextNames ==
    CallStandard \/ CallLvl2 \/ CallCorp \/ CallRecp \/ CallCorpIt \/ CallCorpDedicated

SpecNames == InitNames /\ [][NextNames]_vars

\* C8: a name returned by a Name Builder function that contains, ignoring case, one of
\* hardware, mailbox, network, mobile, security has no token "Prod"
C8_NoProdWithKeyword ==
    (pc = "returned"
     /\ \E keyword \in {"hardware", "mailbox", "network", "mobile", "security"} :
            Contains(keyword, Lower(ret.name)))
    => \A i \in 1..Len(Split(ret.name)) : Split(ret.name)[i] # "Prod"

\* the tokens of the bracketed prefix of a name
PrefixTokens(name) == Split(SubSeq(name, 2, FindChar(name, "]", 1) - 1))

\* the country of {UA, MD, RO, TR} a Parent Offering tag names ("" when none)
TagDsCountry(parent_offering) ==
    LET tag == Split(SubSeq(parent_offering, 2, FindChar(parent_offering, "]", 1) - 1))
    IN IF \E i \in 1..Len(tag) : tag[i] \in {"UA", "MD", "RO", "TR"}
       THEN tag[CHOOSE i \in 1..Len(tag) : tag[i] \in {"UA", "MD", "RO", "TR"}]
       ELSE ""

\* C9: when the Parent Offering tag names a country of {UA, MD, RO, TR}, that country is
\* in the prefix of the returned name and is directly preceded by DS wherever it occurs
C9_DsBeforeOverrideCountry ==
    (pc = "returned" /\ TagDsCountry(call.parent_offering) # "") =>
        LET country == TagDsCountry(call.parent_offering)
            prefix == PrefixTokens(ret.name)
        IN /\ \E i \in 1..Len(prefix) : prefix[i] = country
           /\ \A i \in 1..Len(prefix) :
                  prefix[i] = country => (i > 1 /\ prefix[i - 1] = "DS")

\* the tokens of the bracketed tag of a Parent Offering, and the text after the tag
ParentTag(parent_offering) ==
    Split(SubSeq(parent_offering, 2, FindChar(parent_offering, "]", 1) - 1))
CatalogText(parent_offering) ==
    Strip(SubSeq(parent_offering, FindChar(parent_offering, "]", 1) + 1,
                 Len(parent_offering)))

\* a text has a token "incident" or "solving", ignoring case
HasIncidentToken(text) ==
    \E i \in 1..Len(Split(text)) : Lower(Split(text)[i]) \in {"incident", "solving"}

\* a Parent Offering "[Parent <d> <c> <dept>] <catalog>": d a division, c a country that
\* is not served by DS only, dept one of IT, HR, Medical, and a catalog text without a
\* no-Prod keyword and without an incident/solving token
PlainParent(parent_offering) ==
    LET tag == ParentTag(parent_offering)
    IN /\ Len(tag) = 4
       /\ tag[1] = "Parent"
       /\ tag[2] \in {"HS", "DS"}
       /\ Len(tag[3]) = 2 /\ IsUpper(tag[3])
       /\ tag[3] \notin {"UA", "MD", "RO", "TR", "HS", "DS", "IT", "HR"}
       /\ tag[4] \in {"IT", "HR", "Medical"}
       /\ \A keyword \in {"hardware", "mailbox", "network", "mobile", "security"} :
              ~Contains(keyword, Lower(CatalogText(parent_offering)))
       /\ ~HasIncidentToken(CatalogText(parent_offering))

\* build_standard_name was called without a special department for a service request
\* on a plain Parent Offering, with an application
PlainStandardCall ==
    /\ pc = "returned"
    /\ ret.builder = "build_standard_name"
    /\ ret.arg = "None"
    /\ call.sr_or_im = "SR"
    /\ call.app # ""
    /\ PlainParent(call.parent_offering)

\* "[SR <d> <c> <dept>] <catalog> <app> Prod <s>"
PlainStandardName ==
    LET tag == ParentTag(call.parent_offering)
    IN "[SR " \o tag[2] \o " " \o tag[3] \o " " \o tag[4] \o "] "
       \o CatalogText(call.parent_offering) \o " " \o call.app
       \o " Prod " \o call.schedule_suffix

SolvingCount(name) ==
    Len(SelectSeq(Split(name), LAMBDA t : Lower(t) = "solving"))

\* C13: the name built by build_standard_name without a special department for an
\* incident (IM), an application and a catalog text containing "incident" contains
\* "incident solving" directly followed by the application, and "solving" once
C13_IncidentSolvingThenApp ==
    (/\ pc = "returned"
     /\ ret.builder = "build_standard_name"
     /\ ret.arg = "None"
     /\ call.sr_or_im = "IM"
     /\ call.app # ""
     /\ Contains("incident", Lower(CatalogText(call.parent_offering))))
    => /\ Contains(Lower("incident solving " \o call.app \o " "), Lower(ret.name))
       /\ SolvingCount(ret.name) = 1

\* the topic of the HR branch: the tokens of the tag that are neither a division nor a
\* two-letter upper-case code, "Software" when there is none
HrTopic(parent_offering) ==
    LET tag == ParentTag(parent_offering)
        words == SelectSeq(SubSeq(tag, 2, Len(tag)),
                           LAMBDA t : t \notin {"HS", "DS"} /\ ~(Len(t) = 2 /\ IsUpper(t)))
    IN IF Len(words) = 0 THEN "Software" ELSE Join(words, " ")

\* the text of a name after its bracketed prefix
AfterPrefix(name) == SubSeq(name, FindChar(name, "]", 1) + 2, Len(name))

\* build_standard_name was called with special_dept = "HR"
HrCall == pc = "returned" /\ ret.builder = "build_standard_name" /\ ret.arg = "HR"

\* C14: with special_dept = "HR" the prefix of the name starts with sr_or_im and ends
\* with HR, the name has no token "Prod", it ends with the application (when there is
\* one) directly followed by the schedule, and without incident/solving tokens in the
\* inputs its text after the prefix is "<topic> <catalog in lower case> [<app>] <schedule>"
C14_HrName ==
    HrCall =>
        LET prefix == PrefixTokens(ret.name)
            t == Split(ret.name)
            tail == Split(call.app) \o Split(call.schedule_suffix)
            catalog == CatalogText(call.parent_offering)
        IN /\ prefix[1] = call.sr_or_im
           /\ prefix[Len(prefix)] = "HR"
           /\ \A i \in 1..Len(t) : t[i] # "Prod"
           /\ Len(t) >= Len(tail)
           /\ LET k == Len(Split(call.schedule_suffix))
              IN SubSeq(t, Len(t) - k + 1, Len(t)) = Split(call.schedule_suffix)
           /\ call.app # "" =>
                  t[Len(t) - Len(Split(call.schedule_suffix))]
                      = Split(call.app)[Len(Split(call.app))]
           /\ (~HasIncidentToken(catalog) /\ ~HasIncidentToken(call.app)) =>
                  AfterPrefix(ret.name) =
                      HrTopic(call.parent_offering) \o " " \o Lower(catalog)
                      \o (IF call.app # "" THEN " " \o call.app ELSE "")
                      \o " " \o call.schedule_suffix

\* an HR name was built with an application for a Parent Offering tagged IT
C14_Witness ==
    /\ HrCall
    /\ call.parent_offering = "[Parent HS PL IT] Software assistance"
    /\ call.app = "Outlook"
    /\ call.sr_or_im = "IM"
    /\ ret.name = "[IM HS PL HR] Software software assistance Outlook Mon-Fri 9-17"

\* one of the builders that append "solving" for an incident was called: the CORP
\* builders, or build_standard_name in its standard or IT branch
SolvingCall ==
    /\ pc = "returned"
    /\ \/ ret.builder \in {"build_corp_name", "build_recp_name", "build_corp_it_name",
                            "build_corp_dedicated_name"}
       \/ ret.builder = "build_standard_name" /\ ret.arg \in {"None", "IT"}

\* for IM the name has a token "solving" directly after the application, or after the
\* catalog text when no application is given; for SR the name has no more "solving"
\* tokens than the Parent Offering and the application bring
SolvingPlaced ==
    LET t == Split(ret.name)
        before == Split(IF call.app # "" THEN call.app
                        ELSE CatalogText(call.parent_offering))
    IN IF call.sr_or_im = "IM"
       THEN \E i \in 2..Len(t) :
                t[i] = "solving" /\ Lower(t[i - 1]) = Lower(before[Len(before)])
       ELSE SolvingCount(ret.name)
                = SolvingCount(call.parent_offering) + SolvingCount(call.app)

\* C26: whether or not the catalog text contains "incident", the name built by the CORP
\* builders and by build_standard_name (standard and IT branches) has "solving" after
\* the application (after the catalog text without an application) for IM, and no
\* "solving" is inserted for SR
C26_SolvingAfterApp == SolvingCall => SolvingPlaced

\* C28: for every naming convention, the name built with a non-empty application
\* contains the application, ignoring case, so that two applications never give the
\* same name for one Parent Offering, receiver and schedule
C28_NameContainsApp ==
    (pc = "returned" /\ call.app # "") => Contains(Lower(call.app), Lower(ret.name))

-----------------------------------------------------------------------------
(* ensure_incident_naming called on its own result                         *)

IncidentTokenPool == {"incident", "solving", "Incident", "pre-incident", "Outlook"}

\* names of at most MaxTokens tokens, separated by one or by two spaces
IncidentNames ==
    {Join(q, sep) : q \in SeqsUpTo(IncidentTokenPool, MaxTokens), sep \in {" ", "  "}}

InitIncident ==
    /\ pc = "call"
    /\ call \in IncidentNames
    /\ ret = NoCall
    /\ RunIdle

\* name = ensure_incident_naming(name)
IncidentApply ==
    /\ pc = "call"
    /\ pc' = "applied"
    /\ ret' = <<ensure_incident_naming(call)>>
    /\ UNCHANGED <<call, runVars>>

\* the function is called on the name it returned
IncidentApplyAgain ==
    /\ pc = "applied"
    /\ pc' = "reapplied"
    /\ ret' = Append(ret, ensure_incident_naming(ret[1]))
    /\ UNCHANGED <<call, runVars>>

NextIncident == IncidentApply \/ IncidentApplyAgain

SpecIncident == InitIncident /\ [][NextIncident]_vars

\* C10: ensure_incident_naming applied to its own result returns that result
C10_Idempotent == pc = "reapplied" => ret[2] = ret[1]

\* the first call changed the name (tokens were moved or dropped, not only spaces
\* collapsed) and the second call returned the first call's result
C10_Witness ==
    /\ pc = "reapplied"
    /\ ret[1] # Normalize(call)
    /\ ret[2] = ret[1]

\* the tokens of a name other than "incident" and "solving", in order
OtherTokens(name) ==
    SelectSeq(Split(name), LAMBDA t : Lower(t) \notin {"incident", "solving"})

\* C11: in the result of ensure_incident_naming every token "incident" is directly
\* followed by "solving", "solving" occurs only directly after "incident", and the other
\* tokens of the input are kept in their order
C11_IncidentThenSolving ==
    pc = "applied" =>
        LET t == Split(ret[1])
        IN /\ \A i \in 1..Len(t) :
                  Lower(t[i]) = "incident" => (i < Len(t) /\ Lower(t[i + 1]) = "solving")
           /\ \A i \in 1..Len(t) :
                  Lower(t[i]) = "solving" => (i > 1 /\ Lower(t[i - 1]) = "incident")
           /\ OtherTokens(ret[1]) = OtherTokens(call)

-----------------------------------------------------------------------------
(* commit_block called on its own                                          *)

InitCommit ==
    /\ pc = "call"
    /\ call \in [cc : {"PL", "DE", "UA"},
                 schedule_suffix : {"Mon-Fri 9-17", "Mon-Sun 24/7"},
                 rsp_duration : {"2h", "4h", "1d"}, rsl_duration : {"5d", "10d", "1d"},
                 sr_or_im : {"SR", "IM"}]
    /\ ret = NoCall
    /\ RunIdle

CallCommitBlock ==
    /\ pc = "call"
    /\ pc' = "returned"
    /\ ret' = commit_block(call.cc, call.schedule_suffix, call.rsp_duration,
                           call.rsl_duration, call.sr_or_im)
    /\ UNCHANGED <<call, runVars>>

NextCommit == CallCommitBlock

SpecCommit == InitCommit /\ [][NextCommit]_vars

\* "[<country>] <agreement> <SR|IM> <target> <schedule> P1-P4 <duration>" for the call
ExpectedLine(agreement, target, duration) ==
    "[" \o call.cc \o "] " \o agreement \o " " \o call.sr_or_im \o " " \o target \o " "
    \o call.schedule_suffix \o " P1-P4 " \o duration

\* C15: commit_block returns the lines SLA RSP, SLA RSL, OLA RSL for SR and the lines
\* SLA RSP, SLA RSL for IM, the RSP line with rsp_duration and the others with
\* rsl_duration
C15_CommitBlockLines ==
    pc = "returned" =>
        SplitOn(ret, "\n") =
            <<ExpectedLine("SLA", "RSP", call.rsp_duration),
              ExpectedLine("SLA", "RSL", call.rsl_duration)>>
            \o (IF call.sr_or_im = "SR"
                THEN <<ExpectedLine("OLA", "RSL", call.rsl_duration)>> ELSE <<>>)

\* a block of two lines was returned for IM with two different durations
C15_Witness ==
    /\ pc = "returned"
    /\ call.sr_or_im = "IM"
    /\ call.rsp_duration # call.rsl_duration
    /\ Len(SplitOn(ret, "\n")) = 2

-----------------------------------------------------------------------------
(* The columns of one output sheet, from the source sheet to the workbook   *)

MaxCols == 3         \* columns of a source sheet

need_cols ==
    <<"Name (Child Service Offering lvl 1)", "Parent Offering",
      "Service Offerings | Depend On (Application Service)", "Service Commitments",
      "Delivery Manager", "Subscribed by Location", "Phase", "Status",
      "Life Cycle Stage", "Life Cycle Status", "Support group", "Managed by Group",
      "Subscribed by Company", "Business Criticality",
      "Record view", "Approval required", "Approval group">>

\* the keys of the row made by create_new_parent_row
NewParentRowColumns ==
    <<"Name (Child Service Offering lvl 1)", "Parent Offering", "Parent",
      "Service Offerings | Depend On (Application Service)", "Service Commitments",
      "Delivery Manager", "Subscribed by Location", "Phase", "Status",
      "Life Cycle Stage", "Life Cycle Status", "Support group", "Managed by Group",
      "Subscribed by Company", "Business Criticality",
      "Record view", "Approval required", "Approval group">>

Cols(columns) == {columns[i] : i \in 1..Len(columns)}

\* for col in extra: if col not in df.columns: df[col] = ""
AddMissing(columns, extra) ==
    columns \o SelectSeq(extra, LAMBDA col : col \notin Cols(columns))

\* the reordering without the step that adds the original columns the rows lack
ReorderColumnsNoFill(original_order, columns) ==
    SelectSeq(original_order, LAMBDA col : col \in Cols(columns) /\ col # "Number")
    \o SelectSeq(columns, LAMBDA col : col \notin Cols(original_order))

\* df[ordered_cols + new_cols] after the original columns the rows lack were added
ReorderColumns(original_order, columns) ==
    LET filled == AddMissing(columns, original_order)
    IN SelectSeq(original_order, LAMBDA col : col \in Cols(filled) /\ col # "Number")
       \o SelectSeq(filled, LAMBDA col : col \notin Cols(original_order))

\* the column lists of a source sheet: distinct names, at most MaxCols of them
SourceColumns ==
    LET pool == {"Number", "Name (Child Service Offering lvl 1)", "Parent Offering",
                 "Parent", "Visibility group", "Aliases (u_label) - ENG"}
    IN UNION {{c \in [1..n -> pool] : \A i, j \in 1..n : i # j => c[i] # c[j]} :
                 n \in 0..MaxCols}

InitColumns ==
    /\ pc = "collect"
    /\ call \in {c \in [use_new_parent : BOOLEAN, has_sheet : BOOLEAN,
                        columns : SourceColumns] : ~c.has_sheet => c.columns = <<>>}
    /\ ret = [cached |-> FALSE, original_order |-> <<>>, columns |-> <<>>]
    /\ RunIdle

\* the first pass over the files stores the column order of a sheet that exists
CacheColumnOrder ==
    /\ pc = "collect"
    /\ pc' = "read"
    /\ ret' = IF call.has_sheet
              THEN [ret EXCEPT !.cached = TRUE, !.original_order = call.columns]
              ELSE ret
    /\ UNCHANGED <<call, runVars>>

\* the rows of the sheet: synthetic rows, or the rows read with need_cols added
ReadColumns ==
    /\ pc = "read"
    /\ IF call.use_new_parent
       THEN pc' = "expand" /\ ret' = [ret EXCEPT !.columns = NewParentRowColumns]
       ELSE IF ~call.has_sheet
       THEN pc' = "skipped" /\ ret' = ret
       ELSE pc' = "expand"
            /\ ret' = [ret EXCEPT !.columns = AddMissing(call.columns, need_cols)]
    /\ UNCHANGED <<call, runVars>>

\* the keys of a row_dict appended to sheets_data
RowColumns ==
    /\ pc = "expand"
    /\ pc' = "write"
    /\ ret' = [ret EXCEPT !.columns =
                   AddMissing(AddMissing(@, <<"Parent">>), <<"Aliases (u_label) - ENG">>)
                   \o <<"_missing_schedule", "_column_order_key">>]
    /\ UNCHANGED <<call, runVars>>

\* the columns of the sheet written to the workbook
WriteColumns ==
    /\ pc = "write"
    /\ pc' = "written"
    /\ LET df == SelectSeq(ret.columns,
                     LAMBDA col : col \notin {"_missing_schedule", "_column_order_key"})
       IN ret' = [ret EXCEPT !.columns = IF ret.cached
                                         THEN ReorderColumns(ret.original_order, df)
                                         ELSE df]
    /\ UNCHANGED <<call, runVars>>

NextColumns == CacheColumnOrder \/ ReadColumns \/ RowColumns \/ WriteColumns

SpecColumns == InitColumns /\ [][NextColumns]_vars

\* the written columns are the list original followed by columns that are not in the
\* source sheet, and no helper column is among them
OriginalThenNew(original) ==
    /\ Len(ret.columns) >= Len(original)
    /\ SubSeq(ret.columns, 1, Len(original)) = original
    /\ \A i \in (Len(original) + 1)..Len(ret.columns) :
           ret.columns[i] \notin Cols(call.columns)
    /\ Cols(ret.columns) \cap {"_missing_schedule", "_column_order_key"} = {}

\* C18 as stated: a written sheet has the complete column sequence of its source sheet,
\* every original column present in the original order, followed by the columns that
\* were not in the source sheet, and the helper columns never appear
C18_CompleteOriginalOrder ==
    (pc = "written" /\ call.has_sheet) => OriginalThenNew(call.columns)

\* C18: a written sheet has the column sequence of its source sheet without the column
\* "Number", in the original order, followed by the columns that were not in the source
\* sheet, and the helper columns never appear
C18_OriginalOrderWithoutNumber ==
    (pc = "written" /\ call.has_sheet) =>
        OriginalThenNew(SelectSeq(call.columns, LAMBDA col : col # "Number"))

\* a sheet of synthetic rows was written whose source sheet has "Number" and a column
\* the rows lack
C18_Witness ==
    /\ pc = "written"
    /\ call.has_sheet
    /\ call.use_new_parent
    /\ {"Number", "Visibility group"} \subseteq Cols(call.columns)
    /\ "Visibility group" \in Cols(ret.columns)
    /\ "Parent Offering" \in Cols(ret.columns) \ Cols(call.columns)

-----------------------------------------------------------------------------
(* get_schedule_suffixes_for_country called on its own                      *)

\* the settings texts of the calls, each with the lines it holds
ScheduleLines ==
    ("Mon-Fri 8-16\nSat 10-14" :> <<"Mon-Fri 8-16", "Sat 10-14">>)
    @@ (" Mon-Thu 8-17 \n\nFri 8-15\n" :> <<"Mon-Thu 8-17", "Fri 8-15">>)
    @@ ("Mon-Fri 9-17\n  " :> <<"Mon-Fri 9-17">>)

InitSchedule ==
    /\ pc = "call"
    /\ call \in [country : {"PL", "DE", "UA"},
                 receiver : {"", "HS PL", "DS PL", "HS DE", "DS UA"},
                 schedule_settings_per_country :
                     UNION {[keys -> DOMAIN ScheduleLines] :
                               keys \in SUBSET {"PL", "HS PL", "DE"}},
                 default_schedule_suffixes :
                     {<<"Mon-Fri 9-17", "Mon-Sun 24/7">>, <<"Mon-Fri 8-16">>}]
    /\ ret = NoCall
    /\ RunIdle

CallScheduleSuffixes ==
    /\ pc = "call"
    /\ pc' = "returned"
    /\ ret' = get_schedule_suffixes_for_country(call.country, call.receiver,
                  call.schedule_settings_per_country, call.default_schedule_suffixes)
    /\ UNCHANGED <<call, runVars>>

NextSchedule == CallScheduleSuffixes

SpecSchedule == InitSchedule /\ [][NextSchedule]_vars

\* C19: the settings are looked up under the receiver when the country is PL and a
\* receiver is given and under the country code otherwise; a text found there is
\* returned as its trimmed non-empty lines in order, and without an entry there the
\* default list is returned unchanged, also when "PL" has an entry and a receiver is given
C19_ScheduleLookup ==
    pc = "returned" =>
        LET key == IF call.country = "PL" /\ call.receiver # ""
                   THEN call.receiver ELSE call.country
        IN IF key \in DOMAIN call.schedule_settings_per_country
           THEN ret = ScheduleLines[call.schedule_settings_per_country[key]]
           ELSE ret = call.default_schedule_suffixes

\* the default was returned for PL with a receiver although "PL" has an entry
C19_Witness ==
    /\ pc = "returned"
    /\ call.country = "PL"
    /\ call.receiver = "HS PL"
    /\ "PL" \in DOMAIN call.schedule_settings_per_country
    /\ "HS PL" \notin DOMAIN call.schedule_settings_per_country
    /\ ret = call.default_schedule_suffixes
    /\ ret # ScheduleLines[call.schedule_settings_per_country["PL"]]

-----------------------------------------------------------------------------
(* The page of app.py: the naming checkboxes and the Generate button        *)

\* the naming checkboxes, by the variable each one sets
NamingCheckboxes ==
    {"require_corp", "require_recp", "require_corp_dedicated", "require_corp_it",
     "require_dedicated", "special_dak", "special_hr", "special_it", "special_medical"}

\* the Naming tab: the message it shows and the flags left true after it
NamingTab(checked) ==
    IF Cardinality(checked) > 1
    THEN [errors |-> {"Please select only one naming type"}, flags |-> {}]
    ELSE [errors |-> {}, flags |-> checked]

\* the checks of the Generate button without the one on the naming checkboxes
GenerateErrorNoNaming(widgets) ==
    IF ~widgets.uploaded_files THEN "Please upload at least one Excel file"
    ELSE IF widgets.use_new_parent /\ ~widgets.new_parents
    THEN "When using specific parent offering, please add at least one Parent Offering"
    ELSE IF ~widgets.use_new_parent /\ ~widgets.keywords
    THEN "Please enter at least one keyword in either Parent Offering or Child Service Offering"
    ELSE IF ~widgets.schedule_suffixes THEN "Please configure at least one schedule"
    ELSE ""

\* the message of the first failing check of the Generate button, "" when all pass
GenerateError(widgets) ==
    IF ~widgets.uploaded_files THEN "Please upload at least one Excel file"
    ELSE IF widgets.use_new_parent /\ ~widgets.new_parents
    THEN "When using specific parent offering, please add at least one Parent Offering"
    ELSE IF ~widgets.use_new_parent /\ ~widgets.keywords
    THEN "Please enter at least one keyword in either Parent Offering or Child Service Offering"
    ELSE IF ~widgets.schedule_suffixes THEN "Please configure at least one schedule"
    ELSE IF Cardinality(widgets.checked) > 1 THEN "Please select only one naming type"
    ELSE ""

\* the parameters declared by run_generator: those without and those with a default
RunGeneratorParams ==
    [required |->
        {"keywords_parent", "keywords_child", "new_apps", "schedule_suffixes",
         "delivery_manager", "global_prod", "rsp_duration", "rsl_duration", "sr_or_im",
         "require_corp", "require_recp", "delivering_tag", "support_group",
         "managed_by_group", "aliases_on", "aliases_value", "src_dir", "out_dir"},
     optional |->
        {"special_it", "special_hr", "special_medical", "special_dak",
         "use_custom_commitments", "custom_commitments_str", "commitment_country",
         "rsp_enabled", "rsl_enabled", "rsp_schedule", "rsl_schedule", "rsp_priority",
         "rsl_priority", "rsp_time", "rsl_time", "require_corp_it",
         "require_corp_dedicated", "use_new_parent", "new_parent_offering",
         "new_parent", "keywords_excluded", "use_lvl2", "service_type_lvl2",
         "support_groups_per_country", "managed_by_groups_per_country",
         "schedule_settings_per_country", "use_custom_depend_on",
         "custom_depend_on_value", "aliases_per_country", "selected_languages",
         "business_criticality", "approval_required", "approval_required_value",
         "approval_groups_per_app", "change_subscribed_location",
         "custom_subscribed_location", "use_pluralization"}]

\* the keywords of the call of run_generator made by the Generate button
CallKeywords ==
    {"keywords_parent", "keywords_child", "new_apps", "schedule_suffixes",
     "delivery_manager", "global_prod", "use_pluralization", "rsp_duration",
     "rsl_duration", "sr_or_im", "require_corp", "require_recp", "delivering_tag",
     "support_group", "managed_by_group", "aliases_on", "aliases_value",
     "aliases_per_country", "src_dir", "out_dir", "special_it", "special_hr",
     "special_medical", "special_dak", "use_custom_commitments",
     "custom_commitments_str", "commitment_country", "require_corp_it",
     "require_corp_dedicated", "require_dedicated", "use_new_parent",
     "new_parent_offering", "new_parent", "keywords_excluded", "use_lvl2",
     "service_type_lvl2", "support_groups_per_country", "managed_by_groups_per_country",
     "schedule_settings_per_country", "use_custom_depend_on", "custom_depend_on_value",
     "selected_languages", "business_criticality", "approval_required",
     "approval_required_value", "approval_groups_per_app", "change_subscribed_location",
     "custom_subscribed_location", "add_prod"}

\* the page as first shown: nothing uploaded, entered or selected
InitUI ==
    /\ pc = "page"
    /\ call = [checked |-> {}, uploaded_files |-> FALSE, use_new_parent |-> FALSE,
               new_parents |-> FALSE, keywords |-> FALSE, schedule_suffixes |-> FALSE]
    /\ ret = [pressed |-> FALSE, errors |-> {}, called |-> FALSE, flags |-> {},
              outcome |-> "none"]
    /\ RunIdle

\* a naming checkbox is ticked or cleared and the script runs again
ToggleNaming ==
    /\ \E c \in NamingCheckboxes :
           call' = [call EXCEPT !.checked = IF c \in @ THEN @ \ {c} ELSE @ \cup {c}]
    /\ ret' = [pressed |-> FALSE, errors |-> NamingTab(call'.checked).errors,
               called |-> FALSE, flags |-> {}, outcome |-> "none"]
    /\ UNCHANGED <<pc, runVars>>

\* one of the other inputs is filled or emptied and the script runs again
ChangeInput ==
    /\ \E f \in {"uploaded_files", "use_new_parent", "new_parents", "keywords",
                 "schedule_suffixes"} :
           call' = [call EXCEPT ![f] = ~@]
    /\ ret' = [pressed |-> FALSE, errors |-> NamingTab(call.checked).errors,
               called |-> FALSE, flags |-> {}, outcome |-> "none"]
    /\ UNCHANGED <<pc, runVars>>

\* Generate is pressed: the script runs with the button true; the call binds its
\* keywords to the parameters of run_generator before the body of the function runs,
\* and a TypeError of the binding is caught and shown as an error of the generation
PressGenerate ==
    /\ LET tab == NamingTab(call.checked)
           error == GenerateError(call)
           accepted == /\ CallKeywords \subseteq
                              RunGeneratorParams.required \cup RunGeneratorParams.optional
                       /\ RunGeneratorParams.required \subseteq CallKeywords
           outcome == IF error # "" THEN "none"
                      ELSE IF accepted THEN "run" ELSE "TypeError"
       IN ret' = [pressed |-> TRUE,
                  errors |-> tab.errors \cup (IF error = "" THEN {} ELSE {error})
                             \cup (IF outcome = "TypeError"
                                   THEN {"Error during generation"} ELSE {}),
                  called |-> error = "",
                  flags |-> IF error = "" THEN tab.flags ELSE {},
                  outcome |-> outcome]
    /\ UNCHANGED <<pc, call, runVars>>

NextUI == ToggleNaming \/ ChangeInput \/ PressGenerate

SpecUI == InitUI /\ [][NextUI]_vars

\* C20: run_generator is never called with more than one naming flag true, and a
\* press of Generate with more than one naming checkbox selected shows the message
\* "Please select only one naming type" and does not call run_generator
C20_OneNamingFlag ==
    /\ ret.called => Cardinality(ret.flags) <= 1
    /\ (ret.pressed /\ Cardinality(call.checked) > 1) =>
           /\ ~ret.called
           /\ "Please select only one naming type" \in ret.errors

\* Generate was pressed with two naming checkboxes selected and every other input given
C20_Witness ==
    /\ ret.pressed
    /\ call.checked = {"require_corp", "special_it"}
    /\ call.uploaded_files /\ ~call.use_new_parent /\ call.keywords
    /\ call.schedule_suffixes
    /\ ~ret.called

\* C21: a call of run_generator made by the Generate button is accepted: every keyword
\* it passes is a declared parameter, so the call never ends with an argument error
\* raised before any file is read
C21_CallAccepted ==
    ret.called => ret.outcome = "run"

-----------------------------------------------------------------------------
(* update_commitments called on its own                                     *)

MaxLines == 2        \* lines of an original commitments block

\* the original blocks: at most MaxLines lines, with and without a priority token,
\* with and without an OLA line, blank lines and lines of other text
InitUpdate ==
    /\ pc = "call"
    /\ \E lines \in SeqsUpTo({"[PL] SLA SR RSP Mon-Fri 9-17 P1-P4 2h",
                              "[PL] SLA SR RSL Mon-Fri 9-17 P1-P3 5d",
                              "[PL] OLA SR RSL Mon-Fri 9-17 P1-P4 5d",
                              "[PL] SLA SR RSP Mon-Fri 9-17 2h",
                              " [DE] OLA IM Mon-Fri 9-17 P2-P4 1d ",
                              "", "Support in Polish"}, MaxLines) :
           call \in [orig : {Join(lines, "\n")}, sched : {"Mon-Sun 24/7", "Mon-Fri 8-16"},
                     rsp : {"4h"}, rsl : {"10d"}, sr_or_im : {"SR", "IM"},
                     country : {"PL", "DE"}]
    /\ ret = NoCall
    /\ RunIdle

CallUpdateCommitments ==
    /\ pc = "call"
    /\ pc' = "returned"
    /\ ret' = update_commitments(call.orig, call.sched, call.rsp, call.rsl,
                                 call.sr_or_im, call.country)
    /\ UNCHANGED <<call, runVars>>

NextUpdate == CallUpdateCommitments

SpecUpdate == InitUpdate /\ [][NextUpdate]_vars

\* the non-blank lines of the original block and the lines of the result
OrigLines == StrippedNonEmpty(SplitOn(call.orig, "\n"))
RetLines == IF ret = "" THEN <<>> ELSE SplitOn(ret, "\n")

\* C24: the result has the non-blank lines of the original block in number and order,
\* and each line with RSP, RSL or OLA carries the new schedule, then the priority token
\* the line had (P1-P4 when it had none), then the new duration: rsp for an RSP line,
\* rsl for an RSL or OLA line
C24_LinesUpdated ==
    pc = "returned" =>
        /\ Len(RetLines) = Len(OrigLines)
        /\ \A i \in 1..Len(OrigLines) :
               LET line == OrigLines[i]
                   duration == IF Contains("RSP", line) THEN call.rsp ELSE call.rsl
               IN (Contains("RSP", line) \/ Contains("RSL", line) \/ Contains("OLA", line))
                      => Contains(call.sched \o " " \o PValues(line) \o " " \o duration,
                                  RetLines[i])

\* C25: for SR the result of update_commitments on a block with commitment lines has an
\* OLA line, also when the original block has none
C25_OlaPresent ==
    (pc = "returned" /\ call.sr_or_im = "SR"
         /\ \E i \in 1..Len(OrigLines) : Contains("RSL", OrigLines[i]))
        => \E i \in 1..Len(RetLines) : Contains("OLA", RetLines[i])

====
